---- MODULE Spec2Model ----
(***************************************************************************)
(* CrowdShield routing core: graph values, hazard masking                  *)
(* (block_edges_by_hazards), the path planner (compute_shortest_path,      *)
(* compute_fastest_path, compute_safest_path, grid_route_fallback) of      *)
(* src/src/routing.py and the routing block of src/app.py that dispatches  *)
(* on the route mode and reports route_mode_used.                          *)
(*                                                                         *)
(* Numbers.  Latitudes and longitudes are integers counting 1/Steps of the *)
(* lattice spacing (0.005 degree), so that the interpolation i/steps and   *)
(* the edge midpoint /2 are exact on the inputs used; one degree is Deg    *)
(* units.  Distances are the integer square root of the squared planar     *)
(* distance in those units (the small-angle reading of the haversine       *)
(* formula).                                                               *)
(*                                                                         *)
(* Python values.  None, the dict fallback graph, a reference to a         *)
(* networkx graph object on the heap, and a tuple (graph, count) are kept  *)
(* apart by a kind field, because the code branches on them with           *)
(* "is None" and isinstance(G, nx.Graph).  networkx graph objects are      *)
(* mutable and live in heap, as does the dict fallback graph; heap[1] is   *)
(* the graph the caller loaded.                                            *)
(*                                                                         *)
(* Further parts: load_graph as the steps of one call (variable load), the *)
(* risk scorers and the fusion engine of src/src/risk_disaster.py,         *)
(* risk_crowd.py and fusion_engine.py (variable risk), and the navigation  *)
(* narrator generate_voice_navigation of src/app.py (variable nav).  Calls *)
(* are made one at a time; out, risk and nav record the last completed     *)
(* call of their part with its arguments and its result.                   *)
(*                                                                         *)
(* Spec makes the calls one at a time.  ConcurrentSpec serves two route    *)
(* requests at once on one graph (variable req), their steps interleaved.  *)
(* SessionSpec follows the reruns of one session through the risk block of *)
(* src/app.py: risk_history is st.session_state.risk_history, clock counts *)
(* the times datetime.now() was recorded in it.                            *)
(***************************************************************************)
EXTENDS Integers, Sequences, FiniteSets, TLC

VARIABLES heap, out, load, risk, nav, req, risk_history, clock

vars == <<heap, out, load, risk, nav, req, risk_history, clock>>

-----------------------------------------------------------------------------
(* Program constants *)

\* grid_route_fallback(origin, target, steps=30)
Steps == 30

\* spacing = 0.005 degree per lattice step: 200 steps per degree
SpacingPerDegree == 200

\* model units per lattice step and per degree
Spacing == Steps
Deg == SpacingPerDegree * Spacing

\* center = center_point or (9.931233, 76.267304), in millionths of a degree
DefaultLatMicro == 9931233
DefaultLonMicro == 76267304

\* the reference point in model units (to the unit below)
DefaultCenter ==
    <<(DefaultLatMicro * (Deg \div 1000)) \div 1000,
      (DefaultLonMicro * (Deg \div 1000)) \div 1000>>

-----------------------------------------------------------------------------
(* Bounds of the model *)

\* side of the synthesized lattice (the code's default is size=10)
GridN == 3

-----------------------------------------------------------------------------
(* Python values *)

None == [kind |-> "none"]
Ref(i) == [kind |-> "ref", id |-> i]
Tuple2(g, n) == [kind |-> "tuple", g |-> g, n |-> n]

\* the dict fallback graph {"nodes": [...], "edges": []}
DictGraph == [kind |-> "dict"]

\* isinstance(G, nx.Graph), for a value G and the heap h it refers into
IsNxGraph(h, G) == G.kind = "ref" /\ h[G.id].kind = "nx"

NoPoint == <<>>

-----------------------------------------------------------------------------
(* Arithmetic helpers *)

RECURSIVE ISqrtFrom(_, _, _)
ISqrtFrom(n, lo, hi) ==
    IF lo >= hi THEN lo
    ELSE LET mid == (lo + hi + 1) \div 2
         IN  IF mid * mid <= n THEN ISqrtFrom(n, mid, hi)
             ELSE ISqrtFrom(n, lo, mid - 1)

ISqrt(n) == ISqrtFrom(n, 0, 46340)

\* great-circle distance between two (lat, lon) points
_haversine_km(p1, p2) ==
    LET dlat == p2[1] - p1[1]
        dlon == p2[2] - p1[2]
    IN  ISqrt(dlat * dlat + dlon * dlon)

-----------------------------------------------------------------------------
(* Graph objects (kind "nx"): multi is TRUE for an osmnx MultiDiGraph (directed, keyed  *)
(* parallel edges) and FALSE for an undirected nx.Graph; order is the node  *)
(* insertion order; attr gives each node's y/x attributes; edges is the     *)
(* edge list in iteration order, each edge with its key k, its optional     *)
(* geometry centroid (cy, cx) and its length.                               *)

Edge(u, v, k, geo, cy, cx, len) ==
    [u |-> u, v |-> v, k |-> k, geo |-> geo, cy |-> cy, cx |-> cx, len |-> len]

NodeSet(g) == {g.order[i] : i \in 1..Len(g.order)}

\* nx.grid_2d_graph(size, size): nodes (i, j) in row-major order
GridNode(size, k) == <<(k - 1) \div size, (k - 1) % size>>

\* the edges of nx.grid_2d_graph: ((i,j),(i+1,j)) then ((i,j),(i,j+1))
GridEdgeEnds(size, k) ==
    LET half == (size - 1) * size
    IN  IF k <= half
        THEN LET i == (k - 1) \div size
                 j == (k - 1) % size
             IN  <<(<<i, j>>), (<<i + 1, j>>)>>
        ELSE LET i == (k - half - 1) \div (size - 1)
                 j == (k - half - 1) % (size - 1)
             IN  <<(<<i, j>>), (<<i, j + 1>>)>>

\* build_grid_graph without the offset size // 2: the center is the corner
\* node (0, 0)
build_grid_graph_no_offset(size, center_point, nx) ==
    IF ~nx THEN DictGraph
    ELSE
      LET attr == [n \in {GridNode(size, k) : k \in 1..(size * size)} |->
                     IF center_point # NoPoint
                     THEN [has |-> TRUE,
                           y |-> center_point[1] + n[1] * Spacing,
                           x |-> center_point[2] + n[2] * Spacing]
                     ELSE [has |-> TRUE, y |-> n[1] * Deg, x |-> n[2] * Deg]]
          coord(n) == <<attr[n].y, attr[n].x>>
      IN  [kind |-> "nx",
           multi |-> FALSE,
           order |-> [k \in 1..(size * size) |-> GridNode(size, k)],
           attr |-> attr,
           edges |-> [k \in 1..(2 * size * (size - 1)) |->
                        LET ends == GridEdgeEnds(size, k)
                        IN  Edge(ends[1], ends[2], 0, FALSE, 0, 0,
                                 _haversine_km(coord(ends[1]), coord(ends[2])))]]

\* build_grid_graph(size, center_point): the lattice with y/x attributes and
\* haversine edge lengths; the dict fallback when networkx is missing
build_grid_graph(size, center_point, nx) ==
    IF ~nx THEN DictGraph
    ELSE
      LET offset == size \div 2
          attr == [n \in {GridNode(size, k) : k \in 1..(size * size)} |->
                     IF center_point # NoPoint
                     THEN [has |-> TRUE,
                           y |-> center_point[1] + (n[1] - offset) * Spacing,
                           x |-> center_point[2] + (n[2] - offset) * Spacing]
                     ELSE [has |-> TRUE, y |-> n[1] * Deg, x |-> n[2] * Deg]]
          coord(n) == <<attr[n].y, attr[n].x>>
      IN  [kind |-> "nx",
           multi |-> FALSE,
           order |-> [k \in 1..(size * size) |-> GridNode(size, k)],
           attr |-> attr,
           edges |-> [k \in 1..(2 * size * (size - 1)) |->
                        LET ends == GridEdgeEnds(size, k)
                        IN  Edge(ends[1], ends[2], 0, FALSE, 0, 0,
                                 _haversine_km(coord(ends[1]), coord(ends[2])))]]

-----------------------------------------------------------------------------
(* Hazard inputs.  A hazard set is None or a (Geo)DataFrame; col says       *)
(* whether it has a geometry column, geometry lists the column's items.    *)
(* An item is a shapely polygon (shp, an axis-parallel rectangle with      *)
(* latitudes y1..y2 and longitudes x1..x2) or something without a          *)
(* contains method (a None entry, an unparsed dict).                       *)

Poly(y1, y2, x1, x2) == [shp |-> TRUE, y1 |-> y1, y2 |-> y2, x1 |-> x1, x2 |-> x2]
NotAGeometry == [shp |-> FALSE, y1 |-> 0, y2 |-> 0, x1 |-> 0, x2 |-> 0]
Frame(items) == [kind |-> "frame", col |-> TRUE, geometry |-> items]
FrameWithoutGeometry == [kind |-> "frame", col |-> FALSE, geometry |-> <<>>]

\* shapely: polygon.contains(Point(lon, lat)); boundary points are not contained
contains(poly, pt) ==
    /\ poly.y1 < pt[1] /\ pt[1] < poly.y2
    /\ poly.x1 < pt[2] /\ pt[2] < poly.x2

\* _iter_hazard_geoms: the geometries a hazard input yields
_iter_hazard_geoms(hazard_polygons) ==
    IF hazard_polygons.kind = "none" THEN <<>>
    ELSE IF hazard_polygons.col THEN hazard_polygons.geometry
    ELSE <<>>

-----------------------------------------------------------------------------
(* HazardMask: block_edges_by_hazards *)

\* the representative point of edge e of graph object g (lines 189-225):
\* the geometry centroid, else the mean of the endpoints' x/y attributes,
\* else (attributes missing) the node tuples themselves or 0.0
edge_midpoint(g, e) ==
    IF e.geo THEN <<e.cy, e.cx>>
    ELSE LET au == g.attr[e.u]
             av == g.attr[e.v]
         IN  IF au.has /\ av.has
             THEN <<(au.y + av.y) \div 2, (au.x + av.x) \div 2>>
             ELSE LET u_lat == IF Len(e.u) >= 2 THEN e.u[1] * Deg ELSE IF au.has THEN au.y ELSE 0
                      u_lon == IF Len(e.u) >= 2 THEN e.u[2] * Deg ELSE IF au.has THEN au.x ELSE 0
                      v_lat == IF Len(e.v) >= 2 THEN e.v[1] * Deg ELSE IF av.has THEN av.y ELSE 0
                      v_lon == IF Len(e.v) >= 2 THEN e.v[2] * Deg ELSE IF av.has THEN av.x ELSE 0
                  IN  <<(u_lat + v_lat) \div 2, (u_lon + v_lon) \div 2>>

\* does edge f of the graph join u and v the way remove_edge(u, v) looks it up
Joins(g, f, u, v) ==
    \/ f.u = u /\ f.v = v
    \/ ~g.multi /\ f.u = v /\ f.v = u

\* networkx G2.remove_edge(u, v), no key given: on a multigraph the edge
\* added last among the u-v edges still present goes (dict.popitem); raises
\* (ok = FALSE) when no u-v edge is left
remove_edge(g, u, v) ==
    LET idx == {i \in 1..Len(g.edges) : Joins(g, g.edges[i], u, v)}
    IN  IF idx = {} THEN [ok |-> FALSE, g |-> g]
        ELSE LET last == CHOOSE i \in idx : \A j \in idx : g.edges[j].k <= g.edges[i].k
             IN  [ok |-> TRUE,
                  g |-> [g EXCEPT !.edges =
                           SubSeq(@, 1, last - 1) \o SubSeq(@, last + 1, Len(@))]]

\* the first geometry of geoms[i..] that has a contains method and contains
\* the midpoint (0 when none does): the "for poly in geoms" scan up to break
RECURSIVE FirstContaining(_, _, _)
FirstContaining(geoms, midpoint, i) ==
    IF i > Len(geoms) THEN 0
    ELSE IF geoms[i].shp /\ contains(geoms[i], midpoint) THEN i
    ELSE FirstContaining(geoms, midpoint, i + 1)

\* the edge loop marking a hazardous edge with G2.add_edge(u, v, blocked=True)
\* instead of removing it: on a multigraph that adds a parallel edge
BlockEdge_add_edge(acc, G, e, geoms) ==
    LET midpoint == edge_midpoint(G, e)
    IN  IF FirstContaining(geoms, midpoint, 1) = 0 THEN acc
        ELSE [g2 |-> [acc.g2 EXCEPT !.edges =
                        Append(@, Edge(e.u, e.v, Len(@) + 1, FALSE, 0, 0, e.len))],
              blocked |-> acc.blocked + 1]

\* the edge loop without the break, counting before the removal: an edge is
\* counted once for every hazard that contains its midpoint
BlockEdge_no_break(acc, G, e, geoms) ==
    LET midpoint == edge_midpoint(G, e)
        hits == Cardinality({i \in 1..Len(geoms) :
                               geoms[i].shp /\ contains(geoms[i], midpoint)})
    IN  IF hits = 0 THEN acc
        ELSE [g2 |-> remove_edge(acc.g2, e.u, e.v).g, blocked |-> acc.blocked + hits]

\* one pass of the edge loop (lines 186-244) for edge e of the input graph
\* G: acc.g2 is the state of G2, acc.blocked the counter
BlockEdge(acc, G, e, geoms) ==
    LET midpoint == edge_midpoint(G, e)
    IN  IF FirstContaining(geoms, midpoint, 1) = 0 THEN acc
        ELSE LET r == remove_edge(acc.g2, e.u, e.v)
             IN  IF r.ok THEN [g2 |-> r.g, blocked |-> acc.blocked + 1]
                 ELSE acc

RECURSIVE BlockLoop(_, _, _, _, _)
BlockLoop(acc, G, edges, geoms, i) ==
    IF i > Len(edges) THEN acc
    ELSE CHOOSE done \in {BlockLoop(next, G, edges, geoms, i + 1) :
                            next \in {BlockEdge(acc, G, edges[i], geoms)}} : TRUE

\* G2 = G for G2 = G.copy(): the result aliases the input graph
GraphCopy_alias(h, G) == [heap |-> h, ref |-> G]

\* G2 = G.copy(): a new graph object with the same nodes, edges and data
GraphCopy(h, G) == [heap |-> Append(h, h[G.id]), ref |-> Ref(Len(h) + 1)]

\* block_edges_by_hazards(G, hazard_polygons) on heap h: the heap after the
\* call and the returned tuple (graph, blocked)
block_edges_by_hazards(h, G, hazard_polygons) ==
    IF G.kind = "none" \/ hazard_polygons.kind = "none"
    THEN [heap |-> h, graph |-> G, blocked |-> 0]
    ELSE LET geoms == _iter_hazard_geoms(hazard_polygons)
         IN  IF geoms = <<>> THEN [heap |-> h, graph |-> G, blocked |-> 0]
             ELSE IF IsNxGraph(h, G)
             THEN LET c == GraphCopy(h, G)
                      edges == h[G.id].edges
                      acc == BlockLoop([g2 |-> c.heap[c.ref.id], blocked |-> 0],
                                       h[G.id], edges, geoms, 1)
                  IN  [heap |-> [c.heap EXCEPT ![c.ref.id] = acc.g2],
                       graph |-> c.ref,
                       blocked |-> acc.blocked]
             ELSE [heap |-> h, graph |-> G, blocked |-> 0]

-----------------------------------------------------------------------------
(* PathPlanner *)

\* grid_route_fallback with range(steps) for range(steps + 1): the target is
\* never reached
grid_route_fallback_range_steps(origin, target, steps) ==
    [k \in 1..steps |->
       <<origin[1] + ((target[1] - origin[1]) * (k - 1)) \div steps,
         origin[2] + ((target[2] - origin[2]) * (k - 1)) \div steps>>]

\* grid_route_fallback(origin, target, steps): steps + 1 interpolated points
grid_route_fallback(origin, target, steps) ==
    [k \in 1..(steps + 1) |->
       <<origin[1] + ((target[1] - origin[1]) * (k - 1)) \div steps,
         origin[2] + ((target[2] - origin[2]) * (k - 1)) \div steps>>]

\* the coordinate _nearest_node_in_graph compares for node n (lines 263-266)
snap_coord(g, n) ==
    IF Len(n) = 2 THEN <<n[1] * Deg, n[2] * Deg>>
    ELSE <<(IF g.attr[n].has THEN g.attr[n].y ELSE 0),
           (IF g.attr[n].has THEN g.attr[n].x ELSE 0)>>

\* the scan of lines 259-272 from node i on: best is the index of the best
\* node so far (0 for None); a later node wins only when strictly nearer
RECURSIVE NearestScan(_, _, _, _)
NearestScan(g, coord, i, best) ==
    IF i > Len(g.order) THEN best
    ELSE LET d == _haversine_km(coord, snap_coord(g, g.order[i]))
         IN  IF best = 0 \/ d < _haversine_km(coord, snap_coord(g, g.order[best]))
             THEN NearestScan(g, coord, i + 1, i)
             ELSE NearestScan(g, coord, i + 1, best)

\* _nearest_node_in_graph on an nx graph object: the node, or (no nodes) the
\* coordinate itself, which is then no node of the graph
_nearest_node_in_graph(g, coord) ==
    LET best == NearestScan(g, coord, 1, 0)
    IN  IF best = 0 THEN [node |-> coord, in_graph |-> FALSE]
        ELSE [node |-> g.order[best], in_graph |-> TRUE]

\* the arcs a search may take: each edge, and its reverse unless directed
Arcs(g) ==
    {<<g.edges[i].u, g.edges[i].v, g.edges[i].len>> : i \in 1..Len(g.edges)}
    \cup (IF g.multi THEN {}
          ELSE {<<g.edges[i].v, g.edges[i].u, g.edges[i].len>> : i \in 1..Len(g.edges)})

Unreached == 2000 * 1000 * 1000

DistOf(D, n) == (CHOOSE p \in D : p[1] = n)[2]

SetMin(S) == CHOOSE a \in S : \A b \in S : a <= b

\* one round of relaxation of the distance table D (a set of <<node, d>>)
Relax(D, arcs) ==
    {<<p[1],
       SetMin({p[2]} \cup {DistOf(D, a[1]) + a[3] :
                             a \in {b \in arcs : b[2] = p[1] /\ DistOf(D, b[1]) < Unreached}})>>
       : p \in D}

RECURSIVE Distances(_, _, _)
Distances(D, arcs, rounds) ==
    IF rounds = 0 THEN D
    ELSE LET D1 == Relax(D, arcs)
         IN  IF D1 = D THEN D ELSE Distances(D1, arcs, rounds - 1)

RECURSIVE PathBack(_, _, _, _)
PathBack(D, arcs, src, n) ==
    IF n = src THEN <<src>>
    ELSE LET a == CHOOSE b \in arcs :
                    /\ b[2] = n
                    /\ DistOf(D, b[1]) < Unreached
                    /\ DistOf(D, b[1]) + b[3] = DistOf(D, n)
         IN  Append(PathBack(D, arcs, src, a[1]), n)

\* nx.shortest_path(G, source, target, weight="length"): a minimum-length
\* node path, or an exception (ok = FALSE: NodeNotFound, NetworkXNoPath);
\* the unweighted retry of line 294 fails on the same inputs
nx_shortest_path(g, source, target) ==
    IF source \notin NodeSet(g) \/ target \notin NodeSet(g)
    THEN [ok |-> FALSE, path |-> <<>>]
    ELSE LET arcs == Arcs(g)
             D == Distances({<<n, IF n = source THEN 0 ELSE Unreached>> : n \in NodeSet(g)},
                            arcs, Len(g.order))
         IN  IF DistOf(D, target) >= Unreached THEN [ok |-> FALSE, path |-> <<>>]
             ELSE [ok |-> TRUE, path |-> PathBack(D, arcs, source, target)]

\* lines 295-302: the (lat, lon) appended for a node of the path
path_coord(g, node, origin) ==
    IF Len(node) = 2 THEN <<node[1] * Deg, node[2] * Deg>>
    ELSE <<(IF g.attr[node].has THEN g.attr[node].y ELSE origin[1]),
           (IF g.attr[node].has THEN g.attr[node].x ELSE origin[2])>>

\* compute_shortest_path(G, origin, target) on heap h.  route is the list
\* returned; ret names the return statement taken; searched, found and path
\* record what nx.shortest_path did (path is its node path)
compute_shortest_path(h, G, origin, target) ==
    IF G.kind = "none"
    THEN [route |-> grid_route_fallback(origin, target, Steps), ret |-> "null graph",
          searched |-> FALSE, found |-> FALSE, path |-> <<>>]
    ELSE IF IsNxGraph(h, G)
    THEN LET g == h[G.id]
             src == _nearest_node_in_graph(g, origin)
             dst == _nearest_node_in_graph(g, target)
             sp == IF src.in_graph /\ dst.in_graph
                   THEN nx_shortest_path(g, src.node, dst.node)
                   ELSE [ok |-> FALSE, path |-> <<>>]
         IN  IF ~sp.ok
             THEN [route |-> grid_route_fallback(origin, target, Steps), ret |-> "exception",
                   searched |-> TRUE, found |-> FALSE, path |-> <<>>]
             ELSE LET coords == [k \in 1..Len(sp.path) |-> path_coord(g, sp.path[k], origin)]
                  IN  IF coords # <<>>
                      THEN [route |-> coords, ret |-> "search",
                            searched |-> TRUE, found |-> TRUE, path |-> sp.path]
                      ELSE [route |-> grid_route_fallback(origin, target, Steps),
                            ret |-> "empty path",
                            searched |-> TRUE, found |-> TRUE, path |-> sp.path]
    ELSE [route |-> grid_route_fallback(origin, target, Steps), ret |-> "not a graph",
          searched |-> FALSE, found |-> FALSE, path |-> <<>>]

\* compute_fastest_path: the same as compute_shortest_path
compute_fastest_path(h, G, origin, target) == compute_shortest_path(h, G, origin, target)

\* compute_safest_path(G, origin, target, hazards) on heap h: the planner's
\* result on the pruned graph (G_use), with the heap after the call
compute_safest_path(h, G, origin, target, hazards) ==
    IF G.kind = "none"
    THEN [heap |-> h, route |-> grid_route_fallback(origin, target, Steps),
          ret |-> "null graph", searched |-> FALSE, found |-> FALSE, path |-> <<>>]
    ELSE CHOOSE res \in
           {[heap |-> b.heap] @@
            compute_shortest_path(b.heap, IF b.graph.kind # "none" THEN b.graph ELSE G,
                                  origin, target) :
              b \in {block_edges_by_hazards(h, G, hazards)}} : TRUE

\* a route request in progress: pc is its position (start, pruning: in
\* the edge loop of block_edges_by_hazards at edges[i], search: before
\* compute_shortest_path on G_use, done: returned res)
Call(mode, origin, target) ==
    [mode |-> mode, origin |-> origin, target |-> target, pc |-> "start",
     G_use |-> None, edges |-> <<>>, i |-> 0, blocked |-> 0, res |-> None]

\* G.remove_edge(u, v) for G2.remove_edge(u, v): the loop prunes its input
PruneTarget_input(c) == Ref(1)

\* the graph the edge loop of request c removes from (line 227): its G2
PruneTarget(c) == c.G_use

\* the next step of request c on heap h, where h[1] is the graph G all
\* requests were given and hazards their common hazard set: the heap and the
\* request after the step.  Shortest and Fastest are one read of G
\* (compute_shortest_path); Safest enters block_edges_by_hazards (lines
\* 176-185: G2 = G.copy() and list(G.edges(data=True))), runs the edge loop
\* one edge at a time, and then searches the graph it got
request_step(h, hazards, c) ==
    IF c.pc = "start"
    THEN IF c.mode # "Safest"
         THEN [heap |-> h,
               call |-> [c EXCEPT !.pc = "done",
                                  !.res = compute_shortest_path(h, Ref(1), c.origin, c.target)]]
         ELSE IF hazards.kind = "none" \/ ~IsNxGraph(h, Ref(1))
                 \/ _iter_hazard_geoms(hazards) = <<>>
         THEN [heap |-> h, call |-> [c EXCEPT !.pc = "search", !.G_use = Ref(1)]]
         ELSE LET cp == GraphCopy(h, Ref(1))
              IN  [heap |-> cp.heap,
                   call |-> [c EXCEPT !.pc = "pruning", !.G_use = cp.ref,
                                      !.edges = h[1].edges, !.i = 1]]
    ELSE IF c.pc = "pruning"
    THEN IF c.i > Len(c.edges)
         THEN [heap |-> h, call |-> [c EXCEPT !.pc = "search"]]
         ELSE LET acc == BlockEdge([g2 |-> h[PruneTarget(c).id], blocked |-> c.blocked],
                                   h[1], c.edges[c.i], _iter_hazard_geoms(hazards))
              IN  [heap |-> [h EXCEPT ![PruneTarget(c).id] = acc.g2],
                   call |-> [c EXCEPT !.i = @ + 1, !.blocked = acc.blocked]]
    ELSE [heap |-> h,
          call |-> [c EXCEPT !.pc = "done",
                             !.res = compute_shortest_path(h, c.G_use, c.origin, c.target)]]

-----------------------------------------------------------------------------
(* GraphProvider: load_graph and the caller's safe_load_graph *)

\* A call of load_graph(online, center_point) in progress.  fetched is the
\* graph object ox.graph_from_point returns, or None when the fetch raises;
\* ox and nx say whether osmnx and networkx could be imported; center is the
\* point handed to ox.graph_from_point; events lists the fetches and lattice
\* syntheses done so far; result is the value returned (kind "error": an
\* exception that left load_graph).

\* lines 66-68: entry, the test "ox is not None and online", the default center
load_call(online, center_point, ox, nx, fetched) ==
    [pc |-> IF ox /\ online THEN "fetch" ELSE "grid",
     online |-> online, center_point |-> center_point, ox |-> ox, nx |-> nx,
     fetched |-> fetched,
     center |-> IF ox /\ online
                THEN (IF center_point # NoPoint THEN center_point ELSE DefaultCenter)
                ELSE NoPoint,
     events |-> <<>>, result |-> None]

\* the fetch without the inner try/except: a fetch error leaves load_graph
load_fetch_unguarded(l) ==
    [l EXCEPT !.events = Append(@, "fetch"),
              !.pc = "done",
              !.result = IF l.fetched.kind # "none" THEN l.fetched
                         ELSE [kind |-> "error"]]

\* lines 69-75: one fetch; its result is returned, its exception is caught
\* and control falls through to line 77
load_fetch(l) ==
    IF l.fetched.kind # "none"
    THEN [l EXCEPT !.events = Append(@, "fetch"), !.pc = "done", !.result = l.fetched]
    ELSE [l EXCEPT !.events = Append(@, "fetch"), !.pc = "grid"]

\* line 77: return build_grid_graph(size=10, center_point=center_point)
load_grid(l) ==
    [l EXCEPT !.events = Append(@, "grid"),
              !.pc = "done",
              !.result = build_grid_graph(GridN, l.center_point, l.nx)]

\* load_graph(online, center_point) run to its return
load_graph(online, center_point, ox, nx, fetched) ==
    LET l0 == load_call(online, center_point, ox, nx, fetched)
        l1 == IF l0.pc = "fetch" THEN load_fetch(l0) ELSE l0
        l2 == IF l1.pc = "grid" THEN load_grid(l1) ELSE l1
    IN  l2.result

\* safe_load_graph (app.py): the loaded graph when it is an nx graph (or has
\* nodes and edges attributes), else None
safe_load_graph(h, G) ==
    IF IsNxGraph(h, G) THEN G ELSE None

-----------------------------------------------------------------------------
(* The routing block of app.py (lines 706-751), with should_find_route     *)
(* true: G is what safe_load_graph returned, route_mode the sidebar        *)
(* choice, voice is st.session_state.voice_nav_enabled, hazards the        *)
(* normalized hazard frame.                                                *)

Result(h, r, used) == [heap |-> h, route_mode_used |-> used] @@ r

AppFallback(h, origin, target, used, why) ==
    [heap |-> h, route |-> grid_route_fallback(origin, target, Steps),
     route_mode_used |-> used, ret |-> why,
     searched |-> FALSE, found |-> FALSE, path |-> <<>>]

\* lines 738-740: a missing or degenerate route is replaced
InvalidRouteCheck(res, origin, target) ==
    CHOOSE checked \in
        {IF Len(r.route) < 2
         THEN [r EXCEPT !.route = grid_route_fallback(origin, target, Steps),
                        !.route_mode_used = "Grid fallback (invalid route)",
                        !.ret = "invalid route"]
         ELSE r : r \in {res}} : TRUE

\* line 727: G_blocked is whatever block_edges_by_hazards returns, that is
\* the tuple (graph, blocked)
HazardBlocked(h, G, hazards) ==
    IF hazards.kind # "none"
    THEN CHOOSE hb \in {[heap |-> b.heap, G_blocked |-> Tuple2(b.graph, b.blocked)] :
                          b \in {block_edges_by_hazards(h, G, hazards)}} : TRUE
    ELSE [heap |-> h, G_blocked |-> G]

app_route(h, G, origin, target, route_mode, voice, hazards) ==
    LET effective_route_mode == IF voice THEN "Safest" ELSE route_mode
    IN  IF G.kind = "none"
        THEN AppFallback(h, origin, target, "Grid fallback (no graph)", "no graph")
        ELSE CHOOSE res \in
               {InvalidRouteCheck(
                   IF effective_route_mode = "Shortest"
                   THEN Result(hb.heap,
                               compute_shortest_path(hb.heap, hb.G_blocked, origin, target),
                               route_mode)
                   ELSE IF effective_route_mode = "Fastest"
                   THEN Result(hb.heap,
                               compute_fastest_path(hb.heap, hb.G_blocked, origin, target),
                               route_mode)
                   ELSE IF effective_route_mode = "Safest"
                   THEN Result(hb.heap,
                               compute_safest_path(hb.heap, hb.G_blocked, origin, target,
                                                   hazards),
                               IF voice THEN "Safest (Voice Navigation)" ELSE "Safest")
                   ELSE AppFallback(hb.heap, origin, target,
                                    "Grid fallback (compute_* missing)", "compute missing"),
                   origin, target) : hb \in {HazardBlocked(h, G, hazards)}} : TRUE

-----------------------------------------------------------------------------
(* RiskFusionEngine: risk_disaster.score_disaster, risk_crowd.score_crowd,  *)
(* fusion_engine.fuse.  Scores are integers counting thousandths (0.6 is    *)
(* 600, 1.0 is 1000), so that the sums and the comparisons are exact.  A    *)
(* value read from a record is a number, absent, or something that is not  *)
(* a number (a string, None).  A call returns its result or raises.        *)

Num(v) == [kind |-> "num", v |-> v]
Absent == [kind |-> "absent"]
NotANumber == [kind |-> "str"]

\* weather = {"rainfall_mm": ..., "wind_kph": ..., ...}
Weather(rainfall_mm, wind_kph) ==
    [kind |-> "dict", rainfall_mm |-> rainfall_mm, wind_kph |-> wind_kph]

\* the thresholds _load_thresholds returns when configs/thresholds.yaml does
\* not exist (risk_disaster.py lines 14-17, risk_crowd.py line 68)
DefaultThresholds ==
    [rainfall_mm |-> [medium |-> 25, high |-> 50],
     wind_kph |-> [medium |-> 40, high |-> 80],
     crowd_density_per_m2 |-> [medium |-> 2, high |-> 4]]

Raised(what) == [raised |-> TRUE, error |-> what, score |-> 0, drivers |-> <<>>]
Returned(score, drivers) ==
    [raised |-> FALSE, error |-> "", score |-> score, drivers |-> drivers]

Driver(text, value) == [text |-> text, value |-> value]

\* weather.get(key, 0)
WeatherGet(weather, key) ==
    IF weather[key].kind = "absent" THEN Num(0) ELSE weather[key]

\* score_disaster with > for >= in the rainfall tests
score_disaster_strict(t, weather, trigger_flood) ==
    LET rainfall == WeatherGet(weather, "rainfall_mm").v
        wind == WeatherGet(weather, "wind_kph").v
        rain == IF rainfall > t.rainfall_mm.high \/ trigger_flood
                THEN [part |-> 600, d |-> Driver("Severe rainfall", rainfall)]
                ELSE IF rainfall > t.rainfall_mm.medium
                THEN [part |-> 300, d |-> Driver("Moderate rainfall", rainfall)]
                ELSE [part |-> 0, d |-> Driver("Low rainfall", rainfall)]
        wnd == IF wind >= t.wind_kph.high
               THEN [part |-> 400, d |-> Driver("High winds", wind)]
               ELSE IF wind >= t.wind_kph.medium
               THEN [part |-> 150, d |-> Driver("Moderate winds", wind)]
               ELSE [part |-> 0, d |-> Driver("Low winds", wind)]
    IN  IF weather.kind = "none" THEN Raised("AttributeError")
        ELSE IF WeatherGet(weather, "rainfall_mm").kind # "num" THEN Raised("TypeError")
        ELSE IF WeatherGet(weather, "wind_kph").kind # "num" THEN Raised("TypeError")
        ELSE Returned(IF rain.part + wnd.part < 1000 THEN rain.part + wnd.part ELSE 1000,
                      <<rain.d, wnd.d>>)

\* score_disaster(weather, trigger_flood) with thresholds t: weather.get on
\* None raises AttributeError (line 25), comparing a value that is not a
\* number raises TypeError (lines 32, 42)
score_disaster(t, weather, trigger_flood) ==
    LET rainfall == WeatherGet(weather, "rainfall_mm").v
        wind == WeatherGet(weather, "wind_kph").v
        rain == IF rainfall >= t.rainfall_mm.high \/ trigger_flood
                THEN [part |-> 600, d |-> Driver("Severe rainfall", rainfall)]
                ELSE IF rainfall >= t.rainfall_mm.medium
                THEN [part |-> 300, d |-> Driver("Moderate rainfall", rainfall)]
                ELSE [part |-> 0, d |-> Driver("Low rainfall", rainfall)]
        wnd == IF wind >= t.wind_kph.high
               THEN [part |-> 400, d |-> Driver("High winds", wind)]
               ELSE IF wind >= t.wind_kph.medium
               THEN [part |-> 150, d |-> Driver("Moderate winds", wind)]
               ELSE [part |-> 0, d |-> Driver("Low winds", wind)]
    IN  IF weather.kind = "none" THEN Raised("AttributeError")
        ELSE IF WeatherGet(weather, "rainfall_mm").kind # "num" THEN Raised("TypeError")
        ELSE IF WeatherGet(weather, "wind_kph").kind # "num" THEN Raised("TypeError")
        ELSE Returned(IF rain.part + wnd.part < 1000 THEN rain.part + wnd.part ELSE 1000,
                      <<rain.d, wnd.d>>)

\* a crowd DataFrame: rows is its number of rows, people says whether it has
\* a "people" column ("absent"), one of numbers ("num") or one whose sum is
\* no integer ("bad"); total is the column's sum
CrowdFrame(rows, people, total) ==
    [kind |-> "frame", rows |-> rows, people |-> people, total |-> total]

\* score_crowd with > for >= in the density tests
score_crowd_strict(t, crowd_df, trigger_surge, area_m2) ==
    IF crowd_df.kind = "none" \/ crowd_df.rows = 0
    THEN Returned(0, <<Driver("No crowd data", 0)>>)
    ELSE IF crowd_df.people = "absent"
    THEN Returned(0, <<Driver("Missing 'people' column", 0)>>)
    ELSE IF crowd_df.people = "bad" THEN Raised("ValueError")
    ELSE IF area_m2 = 0 THEN Raised("ZeroDivisionError")
    ELSE LET total_people == crowd_df.total
             drivers == <<Driver("Density", <<total_people, area_m2>>),
                          Driver("Total people", total_people)>>
         IN  IF trigger_surge \/ total_people > t.crowd_density_per_m2.high * area_m2
             THEN Returned(700, Append(drivers, Driver("High density", 0)))
             ELSE IF total_people > t.crowd_density_per_m2.medium * area_m2
             THEN Returned(350, Append(drivers, Driver("Moderate density", 0)))
             ELSE Returned(0, Append(drivers, Driver("Low density", 0)))

\* score_crowd(crowd_df, trigger_surge, area_m2) with thresholds t; area_m2
\* is not negative, so density >= h is total_people >= h * area_m2; int() of
\* a sum that is no number raises (line 32), area_m2 = 0 raises
\* ZeroDivisionError (line 33)
score_crowd(t, crowd_df, trigger_surge, area_m2) ==
    IF crowd_df.kind = "none" \/ crowd_df.rows = 0
    THEN Returned(0, <<Driver("No crowd data", 0)>>)
    ELSE IF crowd_df.people = "absent"
    THEN Returned(0, <<Driver("Missing 'people' column", 0)>>)
    ELSE IF crowd_df.people = "bad" THEN Raised("ValueError")
    ELSE IF area_m2 = 0 THEN Raised("ZeroDivisionError")
    ELSE LET total_people == crowd_df.total
             drivers == <<Driver("Density", <<total_people, area_m2>>),
                          Driver("Total people", total_people)>>
         IN  IF trigger_surge \/ total_people >= t.crowd_density_per_m2.high * area_m2
             THEN Returned(700, Append(drivers, Driver("High density", 0)))
             ELSE IF total_people >= t.crowd_density_per_m2.medium * area_m2
             THEN Returned(350, Append(drivers, Driver("Moderate density", 0)))
             ELSE Returned(0, Append(drivers, Driver("Low density", 0)))

\* Labels are pairs: <<"en", text>> for an English default of the code,
\* <<language, key>> for an entry of a label table.  An i18n argument is
\* None, a dict (table: a function from some keys to labels) or something
\* that is no dict.
En(text) == <<"en", text>>
LabelTable(table) == [kind |-> "dict", table |-> table]
NotADict == [kind |-> "list"]

\* the helper _(key, default) of fuse (lines 11-14)
Translate(i18n, key, default) ==
    IF i18n.kind = "dict" /\ DOMAIN i18n.table # {} /\ key \in DOMAIN i18n.table
    THEN i18n.table[key]
    ELSE default

\* the tier branches of fuse (lines 17-41): the key and default of the tier
\* label and of each recommendation, in order
TierBranch(bucket) ==
    CASE bucket = "low" ->
           [tier |-> <<"low", "Low">>,
            recs |-> << <<"rec_monitor", "Monitor conditions">>,
                        <<"rec_updates", "Send updates to residents">> >>]
      [] bucket = "medium" ->
           [tier |-> <<"medium", "Medium">>,
            recs |-> << <<"rec_prepare", "Prepare shelters">>,
                        <<"rec_limit", "Advise limited movement">> >>]
      [] bucket = "high" ->
           [tier |-> <<"high", "High">>,
            recs |-> << <<"rec_evac", "Activate evacuation protocol">>,
                        <<"rec_vulnerable", "Prioritize vulnerable groups">> >>]
      [] bucket = "critical" ->
           [tier |-> <<"critical", "Critical">>,
            recs |-> << <<"rec_immediate", "Immediate evacuation">>,
                        <<"rec_services", "Deploy emergency services">>,
                        <<"rec_broadcast", "Activate emergency broadcast">> >>]

\* what fuse returns for the branch taken: the labels (tier,
\* recommendations), and with them the branch (bucket) and the keys asked for
FuseResult(bucket, rec_pairs, i18n) ==
    [tier |-> Translate(i18n, TierBranch(bucket).tier[1], En(TierBranch(bucket).tier[2])),
     recommendations |->
         [k \in 1..Len(rec_pairs) |-> Translate(i18n, rec_pairs[k][1], En(rec_pairs[k][2]))],
     bucket |-> bucket,
     keys |-> [k \in 1..Len(rec_pairs) |-> rec_pairs[k][1]]]

\* combined = max(disaster_score, crowd_score * 0.9), in ten-thousandths
Combined(disaster_score, crowd_score) ==
    IF 10 * disaster_score >= 9 * crowd_score THEN 10 * disaster_score
    ELSE 9 * crowd_score

\* the tier for a combined score (lines 17, 23, 29, 35)
Bucket(combined) ==
    IF combined < 2000 THEN "low"
    ELSE IF combined < 5000 THEN "medium"
    ELSE IF combined < 8000 THEN "high"
    ELSE "critical"

\* fuse with <= for < in the tier tests
fuse_inclusive(disaster_score, crowd_score, i18n) ==
    LET combined == Combined(disaster_score, crowd_score)
        bucket == IF combined <= 2000 THEN "low"
                  ELSE IF combined <= 5000 THEN "medium"
                  ELSE IF combined <= 8000 THEN "high"
                  ELSE "critical"
    IN  FuseResult(bucket, TierBranch(bucket).recs, i18n)

\* fuse combining the scores by their distance instead of their maximum
fuse_difference(disaster_score, crowd_score, i18n) ==
    LET diff == 10 * disaster_score - 9 * crowd_score
        bucket == Bucket(IF diff >= 0 THEN diff ELSE 0 - diff)
    IN  FuseResult(bucket, TierBranch(bucket).recs, i18n)

\* fuse listing only the recommendations the label table translates
fuse_translated_only(disaster_score, crowd_score, i18n) ==
    LET bucket == Bucket(Combined(disaster_score, crowd_score))
        recs == TierBranch(bucket).recs
    IN  FuseResult(bucket,
                   IF i18n.kind = "dict"
                   THEN SelectSeq(recs, LAMBDA r : r[1] \in DOMAIN i18n.table)
                   ELSE recs,
                   i18n)

\* fuse(disaster_score, crowd_score, i18n)
fuse(disaster_score, crowd_score, i18n) ==
    LET bucket == Bucket(Combined(disaster_score, crowd_score))
    IN  FuseResult(bucket, TierBranch(bucket).recs, i18n)

-----------------------------------------------------------------------------
(* The risk block of the app (app.py lines 379-404): the scorers and fuse   *)
(* called in turn, each inside try / except, and the risk history of the    *)
(* session.                                                                  *)

\* the default of score_crowd's area_m2 parameter, which the app does not
\* pass
DefaultArea == 1000

\* the length the risk history is cut to
HistoryCap == 100

\* the risk block calling score_disaster with the crowd trigger
app_risk_crowd_trigger(t, weather, trigger_flood, crowd_sim, trigger_crowd, i18n) ==
    LET d == score_disaster(t, weather, trigger_crowd)
        c == score_crowd(t, crowd_sim, trigger_crowd, DefaultArea)
        disaster_score == IF d.raised THEN 0 ELSE d.score
        crowd_score == IF c.raised THEN 0 ELSE c.score
        f == fuse(disaster_score, crowd_score, i18n)
    IN  [disaster_score |-> disaster_score,
         drivers |-> IF d.raised THEN <<Driver("Disaster scoring error", 0)>>
                     ELSE d.drivers,
         crowd_score |-> crowd_score,
         crowd_drivers |-> IF c.raised THEN <<Driver("Crowd scoring error", 0)>>
                           ELSE c.drivers,
         severity |-> f.tier, recommendations |-> f.recommendations,
         bucket |-> f.bucket]

\* lines 381-398: the scores, drivers, severity and recommendations of a
\* rerun; a scorer that raises counts 0.0 with an error driver
app_risk(t, weather, trigger_flood, crowd_sim, trigger_crowd, i18n) ==
    LET d == score_disaster(t, weather, trigger_flood)
        c == score_crowd(t, crowd_sim, trigger_crowd, DefaultArea)
        disaster_score == IF d.raised THEN 0 ELSE d.score
        crowd_score == IF c.raised THEN 0 ELSE c.score
        f == fuse(disaster_score, crowd_score, i18n)
    IN  [disaster_score |-> disaster_score,
         drivers |-> IF d.raised THEN <<Driver("Disaster scoring error", 0)>>
                     ELSE d.drivers,
         crowd_score |-> crowd_score,
         crowd_drivers |-> IF c.raised THEN <<Driver("Crowd scoring error", 0)>>
                           ELSE c.drivers,
         severity |-> f.tier, recommendations |-> f.recommendations,
         bucket |-> f.bucket]

\* the history update keeping the first 100 entries: risk_history[:100]
risk_history_update_head(history, entry) ==
    LET appended == Append(history, entry)
    IN  IF Len(appended) > HistoryCap THEN SubSeq(appended, 1, HistoryCap)
        ELSE appended

\* lines 402-404: append the entry, then keep the last 100
risk_history_update(history, entry) ==
    LET appended == Append(history, entry)
    IN  IF Len(appended) > HistoryCap
        THEN SubSeq(appended, Len(appended) - HistoryCap + 1, Len(appended))
        ELSE appended

-----------------------------------------------------------------------------
(* NavigationNarrator: generate_voice_navigation of app.py with its helpers *)
(* haversine_km and calculate_bearing.  Here a route point is a pair        *)
(* (north, east) of whole metres in a local plane, a distance is in metres  *)
(* (the integer square root of the squared distance) and an angle is in     *)
(* hundredths of a degree, so that 22.5 degrees is 2250.                    *)

\* haversine_km(p1, p2) * 1000
haversine_m(p1, p2) ==
    ISqrt((p2[1] - p1[1]) * (p2[1] - p1[1]) + (p2[2] - p1[2]) * (p2[2] - p1[2]))

\* atan(y / x) for 0 <= y <= x, x > 0, to within a quarter of a degree:
\* 45 t + 15.64 t (1 - t) with t = y / x in thousandths
AtanCenti(y, x) ==
    LET t == (1000 * y) \div x
    IN  (45 * t) \div 10 + (1564 * t * (1000 - t)) \div (1000 * 1000)

\* calculate_bearing(p1, p2): the forward azimuth atan2(east, north),
\* normalised to [0, 360); atan2(0, 0) is 0
calculate_bearing(p1, p2) ==
    LET dn == p2[1] - p1[1]
        de == p2[2] - p1[2]
        an == IF dn >= 0 THEN dn ELSE 0 - dn
        ae == IF de >= 0 THEN de ELSE 0 - de
        theta == IF an = 0 /\ ae = 0 THEN 0
                 ELSE IF ae <= an THEN AtanCenti(ae, an)
                 ELSE 9000 - AtanCenti(an, ae)
        angle == IF dn >= 0 /\ de >= 0 THEN theta
                 ELSE IF dn < 0 /\ de >= 0 THEN 18000 - theta
                 ELSE IF dn < 0 THEN 18000 + theta
                 ELSE 36000 - theta
    IN  (angle + 36000) % 36000

\* lines 474-491: the direction for a turn angle
turn_direction(turn_angle) ==
    IF turn_angle > 33750 \/ turn_angle < 2250 THEN "Continue straight ahead"
    ELSE IF 2250 <= turn_angle /\ turn_angle < 6750 THEN "Turn slightly right"
    ELSE IF 6750 <= turn_angle /\ turn_angle < 11250 THEN "Turn right"
    ELSE IF 11250 <= turn_angle /\ turn_angle < 15750 THEN "Turn sharp right"
    ELSE IF 15750 <= turn_angle /\ turn_angle < 20250 THEN "Make a U-turn"
    ELSE IF 20250 <= turn_angle /\ turn_angle < 24750 THEN "Turn sharp left"
    ELSE IF 24750 <= turn_angle /\ turn_angle < 29250 THEN "Turn left"
    ELSE IF 29250 <= turn_angle /\ turn_angle < 33750 THEN "Turn slightly left"
    ELSE "Continue"

\* lines 494-501: the direction of the first emitted segment
cardinal_direction(bearing) ==
    IF 31500 <= bearing \/ bearing < 4500 THEN "Head north"
    ELSE IF 4500 <= bearing /\ bearing < 13500 THEN "Head east"
    ELSE IF 13500 <= bearing /\ bearing < 22500 THEN "Head south"
    ELSE "Head west"

\* the instruction dicts; bearing and remaining are absent (-1, 0) but for
\* turns; NoBearing stands for prev_bearing = None
NoBearing == 0 - 1

Instruction(type, direction, distance, bearing, remaining, priority) ==
    [type |-> type, direction |-> direction, distance |-> distance,
     bearing |-> bearing, remaining |-> remaining, priority |-> priority]

StartInstruction == Instruction("start", "", 0, NoBearing, 0, "high")
ApproachInstruction == Instruction("approach", "", 0, NoBearing, 0, "high")
ArrivalInstruction == Instruction("arrival", "", 0, NoBearing, 0, "high")

\* the loop pass taking route[i + 1] for the end of the chunk: the next
\* point of the route, whatever segment_size is
NarrateChunk_next_index(nv, route, i, segment_size, dist_m) ==
    LET current == route[i + 1]
        next_point == route[i + 2]
        distance_seg == haversine_m(current, next_point)
        cumulative_distance == nv.cumulative_distance + distance_seg
        bearing == calculate_bearing(current, next_point)
        direction == IF nv.prev_bearing # NoBearing
                     THEN turn_direction((bearing - nv.prev_bearing + 36000) % 36000)
                     ELSE cardinal_direction(bearing)
        remaining_dist == dist_m - cumulative_distance
    IN  IF distance_seg < 5
        THEN [nv EXCEPT !.cumulative_distance = cumulative_distance]
        ELSE [instructions |->
                  Append(nv.instructions,
                         Instruction("turn", direction, distance_seg, bearing,
                                     remaining_dist, "normal")),
              prev_bearing |-> bearing,
              cumulative_distance |-> cumulative_distance]

\* the loop pass with the bearing taken before the test of line 464: a
\* skipped chunk becomes the previous bearing of the next turn
NarrateChunk_bearing_first(nv, route, i, segment_size, dist_m) ==
    LET current == route[i + 1]
        next_point == IF i + segment_size >= Len(route) THEN route[Len(route)]
                      ELSE route[i + segment_size + 1]
        distance_seg == haversine_m(current, next_point)
        cumulative_distance == nv.cumulative_distance + distance_seg
        bearing == calculate_bearing(current, next_point)
        direction == IF nv.prev_bearing # NoBearing
                     THEN turn_direction((bearing - nv.prev_bearing + 36000) % 36000)
                     ELSE cardinal_direction(bearing)
        remaining_dist == dist_m - cumulative_distance
    IN  IF distance_seg < 5
        THEN [nv EXCEPT !.cumulative_distance = cumulative_distance,
                        !.prev_bearing = bearing]
        ELSE [instructions |->
                  Append(nv.instructions,
                         Instruction("turn", direction, distance_seg, bearing,
                                     remaining_dist, "normal")),
              prev_bearing |-> bearing,
              cumulative_distance |-> cumulative_distance]

\* one pass of the loop of lines 452-530 at index i (0-based): nv holds
\* instructions, prev_bearing and cumulative_distance; dist_m is
\* dist_km * 1000
NarrateChunk(nv, route, i, segment_size, dist_m) ==
    LET current == route[i + 1]
        next_point == IF i + segment_size >= Len(route) THEN route[Len(route)]
                      ELSE route[i + segment_size + 1]
        distance_seg == haversine_m(current, next_point)
        cumulative_distance == nv.cumulative_distance + distance_seg
        bearing == calculate_bearing(current, next_point)
        direction == IF nv.prev_bearing # NoBearing
                     THEN turn_direction((bearing - nv.prev_bearing + 36000) % 36000)
                     ELSE cardinal_direction(bearing)
        remaining_dist == dist_m - cumulative_distance
    IN  IF distance_seg < 5
        THEN [nv EXCEPT !.cumulative_distance = cumulative_distance]
        ELSE [instructions |->
                  Append(nv.instructions,
                         Instruction("turn", direction, distance_seg, bearing,
                                     remaining_dist, "normal")),
              prev_bearing |-> bearing,
              cumulative_distance |-> cumulative_distance]

\* for i in range(i, len(route) - 1, segment_size)
RECURSIVE NarrateLoop(_, _, _, _, _)
NarrateLoop(nv, route, i, segment_size, dist_m) ==
    IF i >= Len(route) - 1 THEN nv
    ELSE CHOOSE done \in {NarrateLoop(next, route, i + segment_size, segment_size, dist_m) :
                            next \in {NarrateChunk(nv, route, i, segment_size, dist_m)}} : TRUE

\* generate_voice_navigation adding the approach only after a turn
generate_voice_navigation_after_turn(route, dist_m) ==
    IF route.kind = "none" \/ Len(route.points) < 2 THEN <<>>
    ELSE LET n == Len(route.points)
             segment_size == IF n \div 15 > 1 THEN n \div 15 ELSE 1
             nv == NarrateLoop([instructions |-> <<StartInstruction>>,
                                prev_bearing |-> NoBearing,
                                cumulative_distance |-> 0],
                               route.points, 0, segment_size, dist_m)
         IN  IF Len(nv.instructions) > 1
             THEN nv.instructions \o <<ApproachInstruction, ArrivalInstruction>>
             ELSE Append(nv.instructions, ArrivalInstruction)

\* generate_voice_navigation(route, origin, target, target_name, dist_km,
\* eta_min): the instruction list; route is None or a list of points
generate_voice_navigation(route, dist_m) ==
    IF route.kind = "none" \/ Len(route.points) < 2 THEN <<>>
    ELSE LET n == Len(route.points)
             segment_size == IF n \div 15 > 1 THEN n \div 15 ELSE 1
             nv == NarrateLoop([instructions |-> <<StartInstruction>>,
                                prev_bearing |-> NoBearing,
                                cumulative_distance |-> 0],
                               route.points, 0, segment_size, dist_m)
         IN  IF Len(nv.instructions) > 0
             THEN nv.instructions \o <<ApproachInstruction, ArrivalInstruction>>
             ELSE Append(nv.instructions, ArrivalInstruction)

\* a route of the planner as the narrator measures it: haversine_km sees a
\* step of 1/6000 degree as about 18 m (R = 6371 km), here in the plane
UnitMetres == 18

Metres(p) == <<p[1] * UnitMetres, p[2] * UnitMetres>>

RouteInMetres(route) == [k \in 1..Len(route) |-> Metres(route[k])]

-----------------------------------------------------------------------------
(* Inputs *)

RouteModes == {"Shortest", "Fastest", "Safest"}

\* query points: lattice indices read as degrees, points near the centred
\* lattice and near the network's nodes
Points ==
    {<<0, 0>>, <<Deg, Deg>>, <<2 * Deg, 0>>, <<2 * Spacing, 2 * Spacing>>,
     <<Deg + Spacing, Deg>>}

Centers == {NoPoint, <<Deg, Deg>>}

\* a fetched walking network: a MultiDiGraph with integer node ids, two
\* parallel 1->2 edges with different geometries, and an unconnected node 4
NetAttr ==
    (<<1>> :> [has |-> TRUE, y |-> 0, x |-> 0]) @@
    (<<2>> :> [has |-> TRUE, y |-> 0, x |-> 2 * Spacing]) @@
    (<<3>> :> [has |-> TRUE, y |-> 2 * Spacing, x |-> 2 * Spacing]) @@
    (<<4>> :> [has |-> TRUE, y |-> Deg, x |-> Deg])

NetGraph ==
    [kind |-> "nx", multi |-> TRUE,
     order |-> <<(<<1>>), (<<2>>), (<<3>>), (<<4>>)>>,
     attr |-> NetAttr,
     edges |-> << Edge(<<1>>, <<2>>, 0, TRUE, 0, Spacing, 2 * Spacing),
                  Edge(<<1>>, <<2>>, 1, TRUE, 3 * Spacing, Spacing, 6 * Spacing),
                  Edge(<<2>>, <<1>>, 0, FALSE, 0, 0, 2 * Spacing),
                  Edge(<<2>>, <<3>>, 0, FALSE, 0, 0, 2 * Spacing),
                  Edge(<<3>>, <<2>>, 0, FALSE, 0, 0, 2 * Spacing),
                  Edge(<<1>>, <<3>>, 0, TRUE, 2 * Spacing, 0, 5 * Spacing),
                  Edge(<<3>>, <<1>>, 0, TRUE, 2 * Spacing, 0, 5 * Spacing) >>]

Fetched == {None, NetGraph}

\* a graph a caller of routing.py built itself: an undirected nx.Graph with
\* integer node ids and no x/y/lon/lat node attributes, no edge geometry
BareAttr ==
    (<<1>> :> [has |-> FALSE, y |-> 0, x |-> 0]) @@
    (<<2>> :> [has |-> FALSE, y |-> 0, x |-> 0]) @@
    (<<3>> :> [has |-> FALSE, y |-> 0, x |-> 0])

BareGraph ==
    [kind |-> "nx", multi |-> FALSE,
     order |-> <<(<<1>>), (<<2>>), (<<3>>)>>,
     attr |-> BareAttr,
     edges |-> << Edge(<<1>>, <<2>>, 0, FALSE, 0, 0, 1),
                  Edge(<<2>>, <<3>>, 0, FALSE, 0, 0, 1) >>]

H1 == Poly(-Spacing, Spacing, 0, Deg)
H2 == Poly(-Spacing, Deg, -Spacing, Deg)
H3 == Poly(Deg - Spacing, Deg + 2 * Spacing, Deg - 2 * Spacing, Deg)
HAll == Poly(-Deg, 4 * Deg, -Deg, 4 * Deg)

\* the hazard frames the app can hold after normalize_hazards
HazardFrames ==
    {FrameWithoutGeometry, Frame(<<>>), Frame(<<H1>>), Frame(<<H1, H2>>),
     Frame(<<NotAGeometry, H3>>), Frame(<<HAll>>)}

\* what a direct caller of routing.py may pass
HazardInputs == HazardFrames \cup {None}

\* threshold tables: the defaults, and a configs/thresholds.yaml of a
\* deployment
ConfigThresholds ==
    [rainfall_mm |-> [medium |-> 20, high |-> 40],
     wind_kph |-> [medium |-> 30, high |-> 60],
     crowd_density_per_m2 |-> [medium |-> 1, high |-> 3]]

Thresholds == {DefaultThresholds, ConfigThresholds}

RainValues == {Absent, NotANumber} \cup {Num(v) : v \in {0, 24, 25, 49, 50, 180}}
WindValues == {Absent, NotANumber} \cup {Num(v) : v \in {0, 39, 40, 79, 80}}

WeatherInputs ==
    {None} \cup {Weather(r, w) : r \in RainValues, w \in WindValues}

CrowdTotals == {0, 1, 2, 3, 4, 5, 1999, 2000, 3999, 4000}

CrowdInputs ==
    {None, CrowdFrame(0, "num", 0), CrowdFrame(2, "absent", 0), CrowdFrame(2, "bad", 0)}
    \cup {CrowdFrame(2, "num", n) : n \in CrowdTotals}

Areas == {0, 1, 1000}

\* scores in thousandths, with those next to the tier boundaries
FuseScores ==
    {0, 100, 199, 200, 222, 223, 499, 500, 555, 556, 700, 799, 800, 888, 889, 900, 1000}

LabelKeys ==
    {"low", "medium", "high", "critical", "rec_monitor", "rec_updates", "rec_prepare",
     "rec_limit", "rec_evac", "rec_vulnerable", "rec_immediate", "rec_services",
     "rec_broadcast"}

\* label tables: a complete one, one that knows a few keys, an empty one
LabelTables ==
    {LabelTable([k \in LabelKeys |-> <<"ml", k>>]),
     LabelTable([k \in {"low", "critical", "rec_monitor", "rec_services"} |-> <<"hi", k>>]),
     LabelTable(<<>>)}

I18nInputs == {None, NotADict} \cup LabelTables

\* what the app passes its risk block: a weather dict of two numbers (the
\* sliders or the live reading), the crowd frame safe_load_crowd returned
\* (empty, without a people column, or with numbers), a label table
AppWeather == {Weather(Num(r), Num(w)) : r \in {0, 49, 50}, w \in {0, 79, 80}}

AppCrowd ==
    {CrowdFrame(0, "num", 0), CrowdFrame(2, "absent", 0)}
    \cup {CrowdFrame(2, "num", n) : n \in {0, 3999, 4000}}

AppLabels ==
    {LabelTable([k \in LabelKeys |-> <<"ml", k>>]), LabelTable(<<>>)}

\* the reruns of a session that are followed
MaxReruns == 103

\* routes for the narrator: a list of points, built from a start and steps
Route(points) == [kind |-> "list", points |-> points]

RECURSIVE Walk(_, _)
Walk(points, steps) ==
    IF steps = <<>> THEN points
    ELSE Walk(Append(points, <<points[Len(points)][1] + Head(steps)[1],
                               points[Len(points)][2] + Head(steps)[2]>>),
              Tail(steps))

Repeat(step, k) == [i \in 1..k |-> step]

Stairs(k) == [i \in 1..k |-> IF i % 2 = 1 THEN <<10, 0>> ELSE <<0, 10>>]

NarratorRoutes ==
    {None, Route(<<>>), Route(<< <<0, 0>> >>),
     Route(<< <<0, 0>>, <<0, 0>> >>),
     Route(<< <<0, 0>>, <<0, 3>> >>),
     Route(<< <<0, 0>>, <<0, 3>>, <<100, 3>> >>),
     Route(<< <<0, 0>>, <<100, 0>> >>),
     Route(<< <<0, 0>>, <<100, 0>>, <<100, 100>> >>),
     Route(<< <<0, 0>>, <<100, 0>>, <<100, 3>>, <<200, 3>> >>),
     Route(<< <<0, 0>>, <<0 - 100, 0>>, <<0 - 100, 0 - 100>>, <<0, 0 - 100>>, <<0, 0>> >>),
     Route(Walk(<< <<0, 0>> >>, Repeat(<<0, 10>>, 15))),
     Route(Walk(<< <<0, 0>> >>, Stairs(15))),
     Route(Walk(<< <<0, 0>> >>, Repeat(<<0, 10>>, 30))),
     Route(Walk(<< <<0, 0>> >>, Repeat(<<30, 40>>, 31))),
     Route(Walk(<< <<0, 0>> >>, Repeat(<<10, 0>>, 20) \o Repeat(<<0, 0 - 10>>, 24)))}

\* dist_km * 1000
NarratorDistances == {0, 150, 1500}

\* origin and target of the requests served at once
RequestEnds ==
    {<< <<0, 0>>, <<2 * Deg, 0>> >>, << <<Deg, Deg>>, <<0, 0>> >>}

\* the hazard set the requests share: none, an empty one, one hazard, one
\* over the whole area
RequestHazards == {None, Frame(<<>>), Frame(<<H1>>), Frame(<<HAll>>)}

\* the routes narrated are those that lie, with origin and target, within
\* this many steps of 1/6000 degree in latitude and in longitude
NarrationSpan == 1500

\* results of calculate_bearing, in [0, 360): the bucket boundaries and
\* their neighbours
BearingValues ==
    {0, 1, 2249, 2250, 4500, 6750, 11250, 15750, 20250, 24750, 29250, 33749, 33750,
     33751, 35999}

-----------------------------------------------------------------------------
(* State.  heap is the sequence of live graph objects (heap[1] the loaded  *)
(* graph, later ones those the running call allocated); out records the   *)
(* last completed call: its arguments and what it returned.                *)

Idle ==
    [op |-> "idle", G |-> None, origin |-> NoPoint, target |-> NoPoint,
     mode |-> "", voice |-> FALSE, hazards |-> None,
     graph |-> None, blocked |-> 0,
     route |-> <<>>, route_mode_used |-> "", ret |-> "",
     searched |-> FALSE, found |-> FALSE, path |-> <<>>]

\* no load_graph call in progress
LoadIdle ==
    [pc |-> "idle", online |-> FALSE, center_point |-> NoPoint, ox |-> FALSE,
     nx |-> FALSE, fetched |-> None, center |-> NoPoint, events |-> <<>>,
     result |-> None]

\* no scorer or fuse call to report
RiskIdle == [op |-> "idle"]

\* no narrator call to report
NavIdle == [op |-> "idle"]

\* no route requests being served
ReqIdle == [op |-> "idle"]

Init ==
    /\ heap = <<>>
    /\ out = Idle
    /\ load = LoadIdle
    /\ risk = RiskIdle
    /\ nav = NavIdle
    /\ req = ReqIdle
    /\ risk_history = <<>>
    /\ clock = 0

\* nothing is loaded or running: the next call can be made
Quiet == heap = <<>> /\ load.pc = "idle" /\ risk.op = "idle" /\ nav.op = "idle"

\* a rerun calls routing.load_graph (app.py line 714, via safe_load_graph)
LoadGraphCall ==
    /\ Quiet
    /\ \E online \in BOOLEAN, center_point \in Centers, ox \in BOOLEAN, nx \in BOOLEAN,
          fetched \in Fetched :
         load' = load_call(online, center_point, ox, nx, fetched)
    /\ UNCHANGED <<heap, out, risk, nav, req, risk_history, clock>>

\* ox.graph_from_point is called
LoadGraphFetch ==
    /\ load.pc = "fetch"
    /\ load' = load_fetch(load)
    /\ UNCHANGED <<heap, out, risk, nav, req, risk_history, clock>>

\* build_grid_graph is called
LoadGraphGrid ==
    /\ load.pc = "grid"
    /\ load' = load_grid(load)
    /\ UNCHANGED <<heap, out, risk, nav, req, risk_history, clock>>

\* load_graph has returned: the caller holds the graph
LoadGraphReturn ==
    /\ load.pc = "done"
    /\ heap' = <<load.result>>
    /\ load' = LoadIdle
    /\ UNCHANGED <<out, risk, nav, req, risk_history, clock>>

\* a caller of routing.py brings a graph of its own (the G: Any argument of
\* block_edges_by_hazards and of the compute_* functions)
CallerGraph ==
    /\ Quiet
    /\ heap' = <<BareGraph>>
    /\ UNCHANGED <<out, load, risk, nav, req, risk_history, clock>>

\* the graphs load_graph can return
LoadedGraphs ==
    {load_graph(online, center_point, ox, nx, fetched) :
       online \in BOOLEAN, center_point \in Centers, ox \in BOOLEAN, nx \in BOOLEAN,
       fetched \in Fetched}

\* the graph arguments a call can be given: None or the loaded graph
GraphArgs == {None, Ref(1)}

Ready == heap # <<>> /\ out.op = "idle" /\ req.op = "idle"

\* block_edges_by_hazards(G, hazards)
Prune ==
    /\ Ready
    /\ \E G \in GraphArgs, hazards \in HazardInputs :
         \E b \in {block_edges_by_hazards(heap, G, hazards)} :
             /\ heap' = b.heap
             /\ out' = [Idle EXCEPT !.op = "prune", !.G = G, !.hazards = hazards,
                                    !.graph = b.graph, !.blocked = b.blocked]
    /\ UNCHANGED <<load, risk, nav, req, risk_history, clock>>

\* the record of a completed planner call: its arguments and the fields of
\* its result r, the remaining fields as in Idle
PlannerOut(op, G, origin, target, mode, voice, hazards, r) ==
    [op |-> op, G |-> G, origin |-> origin, target |-> target, mode |-> mode,
     voice |-> voice, hazards |-> hazards] @@ r @@ Idle

\* compute_shortest_path(G, origin, target)
ShortestPath ==
    /\ Ready
    /\ \E G \in GraphArgs, origin \in Points, target \in Points :
         /\ out' = PlannerOut("shortest", G, origin, target, "Shortest", FALSE, None,
                              compute_shortest_path(heap, G, origin, target))
         /\ UNCHANGED <<heap, load, risk, nav, req, risk_history, clock>>

\* compute_fastest_path(G, origin, target)
FastestPath ==
    /\ Ready
    /\ \E G \in GraphArgs, origin \in Points, target \in Points :
         /\ out' = PlannerOut("fastest", G, origin, target, "Fastest", FALSE, None,
                              compute_fastest_path(heap, G, origin, target))
         /\ UNCHANGED <<heap, load, risk, nav, req, risk_history, clock>>

\* compute_safest_path(G, origin, target, hazards)
SafestPath ==
    /\ Ready
    /\ \E G \in GraphArgs, origin \in Points, target \in Points, hazards \in HazardInputs :
         \E s \in {compute_safest_path(heap, G, origin, target, hazards)} :
             /\ heap' = s.heap
             /\ out' = PlannerOut("safest", G, origin, target, "Safest", FALSE, hazards,
                                  [f \in DOMAIN s \ {"heap"} |-> s[f]])
    /\ UNCHANGED <<load, risk, nav, req, risk_history, clock>>

\* the routing block of the app on the graph safe_load_graph got from
\* load_graph
AppRoute ==
    /\ Ready
    /\ heap[1] \in LoadedGraphs
    /\ \E origin \in Points, target \in Points, route_mode \in RouteModes,
          voice \in BOOLEAN, hazards \in HazardFrames :
         \E G \in {safe_load_graph(heap, Ref(1))} :
         \E a \in {app_route(heap, G, origin, target, route_mode, voice, hazards)} :
             /\ heap' = a.heap
             /\ out' = PlannerOut("app", G, origin, target, route_mode, voice, hazards,
                                  [f \in DOMAIN a \ {"heap"} |-> a[f]])
    /\ UNCHANGED <<load, risk, nav, req, risk_history, clock>>

\* risk_disaster.score_disaster(weather, trigger_flood)
ScoreDisaster ==
    /\ Quiet
    /\ \E t \in Thresholds, weather \in WeatherInputs, trigger_flood \in BOOLEAN :
         risk' = [op |-> "score_disaster", t |-> t, weather |-> weather,
                  trigger_flood |-> trigger_flood,
                  res |-> score_disaster(t, weather, trigger_flood)]
    /\ UNCHANGED <<heap, out, load, nav, req, risk_history, clock>>

\* risk_crowd.score_crowd(crowd_df, trigger_surge, area_m2)
ScoreCrowd ==
    /\ Quiet
    /\ \E t \in Thresholds, crowd_df \in CrowdInputs, trigger_surge \in BOOLEAN,
          area_m2 \in Areas :
         risk' = [op |-> "score_crowd", t |-> t, crowd_df |-> crowd_df,
                  trigger_surge |-> trigger_surge, area_m2 |-> area_m2,
                  res |-> score_crowd(t, crowd_df, trigger_surge, area_m2)]
    /\ UNCHANGED <<heap, out, load, nav, req, risk_history, clock>>

\* fusion_engine.fuse(disaster_score, crowd_score, i18n)
Fuse ==
    /\ Quiet
    /\ \E disaster_score \in FuseScores, crowd_score \in FuseScores, i18n \in I18nInputs :
         risk' = [op |-> "fuse", disaster_score |-> disaster_score,
                  crowd_score |-> crowd_score, i18n |-> i18n,
                  res |-> fuse(disaster_score, crowd_score, i18n)]
    /\ UNCHANGED <<heap, out, load, nav, req, risk_history, clock>>

\* the caller has taken the result
RiskReturn ==
    /\ risk.op # "idle"
    /\ risk' = RiskIdle
    /\ UNCHANGED <<heap, out, load, nav, req, risk_history, clock>>

\* generate_voice_navigation(route, ...)
Narrate ==
    /\ Quiet
    /\ \E route \in NarratorRoutes, dist_m \in NarratorDistances :
         nav' = [op |-> "narrate", route |-> route, dist_m |-> dist_m,
                 res |-> generate_voice_navigation(route, dist_m)]
    /\ UNCHANGED <<heap, out, load, risk, req, risk_history, clock>>

\* the app narrates the route it got for origin and target (app.py line
\* 903) with dist_km = haversine_km(origin, target_coord) (lines 692, 697)
NarrateRoute ==
    /\ out.op \in {"shortest", "fastest", "safest", "app"}
    /\ nav.op = "idle"
    /\ \A p \in {out.origin, out.target} \cup {out.route[k] : k \in 1..Len(out.route)} :
         \A c \in 1..2 : p[c] - out.origin[c] \in (0 - NarrationSpan)..NarrationSpan
    /\ \E route \in {Route(RouteInMetres(out.route))},
          dist_m \in {haversine_m(Metres(out.origin), Metres(out.target))} :
         nav' = [op |-> "narrate", route |-> route, dist_m |-> dist_m,
                 res |-> generate_voice_navigation(route, dist_m)]
    /\ UNCHANGED <<heap, out, load, risk, req, risk_history, clock>>

\* lines 470-491 of generate_voice_navigation for a chunk of 5 m or more
\* after a first one: the turn angle and its direction
ClassifyTurn ==
    /\ Quiet
    /\ \E prev_bearing \in BearingValues, bearing \in BearingValues :
         \E turn_angle \in {(bearing - prev_bearing + 36000) % 36000} :
             nav' = [op |-> "turn", prev_bearing |-> prev_bearing, bearing |-> bearing,
                     turn_angle |-> turn_angle, direction |-> turn_direction(turn_angle)]
    /\ UNCHANGED <<heap, out, load, risk, req, risk_history, clock>>

\* the instructions have been taken
NavReturn ==
    /\ nav.op # "idle"
    /\ nav' = NavIdle
    /\ UNCHANGED <<heap, out, load, risk, req, risk_history, clock>>

\* the caller is done with the result: the objects the call allocated are
\* garbage, the loaded graph stays for the next call of this rerun
Return ==
    /\ out.op # "idle"
    /\ nav.op = "idle"
    /\ heap' = <<heap[1]>>
    /\ out' = Idle
    /\ UNCHANGED <<load, risk, nav, req, risk_history, clock>>

\* the rerun ends; the next one loads its graph anew
EndRerun ==
    /\ Ready
    /\ heap' = <<>>
    /\ UNCHANGED <<out, load, risk, nav, req, risk_history, clock>>

\* a rerun reaches the risk block (app.py lines 379-398)
AppRisk ==
    /\ Quiet
    /\ clock < MaxReruns
    /\ \E t \in Thresholds, weather \in AppWeather, trigger_flood \in BOOLEAN,
          crowd_sim \in AppCrowd, trigger_crowd \in BOOLEAN, i18n \in AppLabels :
         risk' = [op |-> "app", t |-> t, weather |-> weather,
                  trigger_flood |-> trigger_flood, crowd_sim |-> crowd_sim,
                  trigger_crowd |-> trigger_crowd, i18n |-> i18n,
                  res |-> app_risk(t, weather, trigger_flood, crowd_sim, trigger_crowd,
                                   i18n)]
    /\ UNCHANGED <<heap, out, load, nav, req, risk_history, clock>>

\* the rerun records its scores (lines 400-404): current_time is later than
\* every time recorded before; an entry is known by its timestamp
RiskHistoryUpdate ==
    /\ risk.op = "app"
    /\ clock' = clock + 1
    /\ risk_history' = risk_history_update(risk_history, [timestamp |-> clock + 1])
    /\ risk' = RiskIdle
    /\ UNCHANGED <<heap, out, load, nav, req>>

\* two route requests are made at once on the loaded graph and one hazard
\* set; shared remembers the graph as it was given
Submit ==
    /\ Ready
    /\ \E hazards \in RequestHazards, m1 \in RouteModes, m2 \in RouteModes,
          e1 \in RequestEnds, e2 \in RequestEnds :
         req' = [op |-> "serving", hazards |-> hazards, shared |-> heap[1],
                 calls |-> <<Call(m1, e1[1], e1[2]), Call(m2, e2[1], e2[2])>>]
    /\ UNCHANGED <<heap, out, load, risk, nav, risk_history, clock>>

\* one of the requests takes its next step
ServeStep ==
    /\ req.op = "serving"
    /\ \E k \in 1..Len(req.calls) :
         /\ req.calls[k].pc # "done"
         /\ \E s \in {request_step(heap, req.hazards, req.calls[k])} :
              /\ heap' = s.heap
              /\ req' = [req EXCEPT !.calls[k] = s.call]
    /\ UNCHANGED <<out, load, risk, nav, risk_history, clock>>

\* all requests have returned; the graphs they allocated are garbage
Collect ==
    /\ req.op = "serving"
    /\ \A k \in 1..Len(req.calls) : req.calls[k].pc = "done"
    /\ req' = ReqIdle
    /\ heap' = <<heap[1]>>
    /\ UNCHANGED <<out, load, risk, nav, risk_history, clock>>

Next ==
    \/ LoadGraphCall
    \/ LoadGraphFetch
    \/ LoadGraphGrid
    \/ LoadGraphReturn
    \/ CallerGraph
    \/ Prune
    \/ ShortestPath
    \/ FastestPath
    \/ SafestPath
    \/ AppRoute
    \/ Return
    \/ EndRerun
    \/ ScoreDisaster
    \/ ScoreCrowd
    \/ Fuse
    \/ RiskReturn
    \/ Narrate
    \/ NarrateRoute
    \/ ClassifyTurn
    \/ NavReturn

Spec == Init /\ [][Next]_vars

\* a call of load_graph that has started runs on: the fetch returns or
\* raises (osmnx requests carry a timeout), the lattice synthesis is a
\* bounded loop
FairSpec ==
    Spec /\ WF_vars(LoadGraphFetch) /\ WF_vars(LoadGraphGrid)

\* route requests served at once on the graph of a rerun, their steps
\* interleaved in every order
ConcurrentNext ==
    \/ LoadGraphCall
    \/ LoadGraphFetch
    \/ LoadGraphGrid
    \/ LoadGraphReturn
    \/ CallerGraph
    \/ Submit
    \/ ServeStep
    \/ Collect
    \/ EndRerun

ConcurrentSpec == Init /\ [][ConcurrentNext]_vars

\* the reruns of one session, as far as its risk block goes
SessionNext ==
    \/ AppRisk
    \/ RiskHistoryUpdate

SessionSpec == Init /\ [][SessionNext]_vars

-----------------------------------------------------------------------------
(* Vocabulary of the properties *)

PlannerOps == {"shortest", "fastest", "safest", "app"}

\* route is the straight-line interpolation of 30 steps: 31 points, point i
\* (0 <= i <= 30) at origin + (target - origin) * i / 30
IsStraightLine(route, origin, target) ==
    /\ Len(route) = 31
    /\ \A i \in 0..30 :
         /\ 30 * route[i + 1][1] = 30 * origin[1] + (target[1] - origin[1]) * i
         /\ 30 * route[i + 1][2] = 30 * origin[2] + (target[2] - origin[2]) * i
    /\ route[1] = origin
    /\ route[31] = target

EdgeSet(g) == {g.edges[i] : i \in 1..Len(g.edges)}

\* the representative point of e lies inside at least one hazard polygon
InHazard(g, e, hazards) ==
    \E i \in 1..Len(_iter_hazard_geoms(hazards)) :
       /\ _iter_hazard_geoms(hazards)[i].shp
       /\ contains(_iter_hazard_geoms(hazards)[i], edge_midpoint(g, e))

\* the last call was block_edges_by_hazards on the loaded networkx graph
PrunedNx == out.op = "prune" /\ IsNxGraph(heap, out.G)

\* the names under which the app reports a fallback route
FallbackNames ==
    {"Grid fallback (no graph)", "Straight-line fallback (no graph)",
     "Grid fallback (compute_* missing)", "Grid fallback (invalid route)",
     "Grid fallback (exception)", "Straight-line fallback (exception)"}

\* a Safest request on a networkx graph: compute_safest_path called on the
\* loaded graph, or the app's routing block in Safest mode with a graph
SafestOnGraph ==
    \/ out.op = "safest" /\ IsNxGraph(heap, out.G)
    \/ out.op = "app" /\ out.G # None /\ (out.voice \/ out.mode = "Safest")

\* the hazard-pruned graph of the last request: the copy the call allocated,
\* or the loaded graph when nothing had to be pruned
PrunedGraph == IF Len(heap) >= 2 THEN heap[2] ELSE heap[1]

ConnectedInPruned ==
    LET src == _nearest_node_in_graph(PrunedGraph, out.origin)
        dst == _nearest_node_in_graph(PrunedGraph, out.target)
    IN  src.in_graph /\ dst.in_graph /\ nx_shortest_path(PrunedGraph, src.node, dst.node).ok

-----------------------------------------------------------------------------
(* Properties *)

\* C1: every route a planner operation returns (compute_shortest_path,
\* compute_fastest_path, compute_safest_path, the app's routing block), for
\* every graph value, mode, hazard set, origin and target, has at least 2
\* points (stated here for distinct origin and target).
C1_RouteHasAtLeastTwoPoints ==
    (out.op \in PlannerOps /\ out.origin # out.target) => Len(out.route) >= 2

\* C2: with a null graph the planner returns the straight-line interpolation
\* with 30 steps: exactly 31 points, point i at origin + (target - origin)*i/30,
\* the first the origin and the last the target.
C2_NullGraphGivesStraightLine ==
    (out.op \in PlannerOps /\ out.G = None)
        => IsStraightLine(out.route, out.origin, out.target)

C2_Witness ==
    /\ out.op = "shortest" /\ out.G = None
    /\ out.origin # out.target
    /\ out.route[1] = out.origin /\ out.route[31] = out.target
    /\ out.route[16] # out.origin /\ out.route[16] # out.target

\* C3: whenever the shortest-path search ran and found no path between the
\* snapped nodes, or yielded a path of fewer than 2 points, the route
\* returned is the straight-line interpolation between origin and target
\* (stated here for distinct origin and target).
C3_NoPathGivesStraightLine ==
    (/\ out.op \in PlannerOps /\ out.origin # out.target
     /\ out.searched /\ (~out.found \/ Len(out.path) < 2))
        => IsStraightLine(out.route, out.origin, out.target)

\* C4: whenever the route the app reports came from the straight-line
\* fallback, the strategy name reported with it is a fallback name and not
\* the requested mode.
C4_FallbackIsReportedByName ==
    (out.op = "app" /\ out.ret # "search")
        => /\ out.route_mode_used \in FallbackNames
           /\ out.route_mode_used \notin
                RouteModes \cup {"Safest (Voice Navigation)"}

\* C5: in Safest mode on a networkx graph whose snapped origin and target
\* are connected after hazard masking, the route is the search's path on
\* the pruned graph: every consecutive pair of it is joined by an edge that
\* survived masking and whose representative point lies in no hazard
\* (stated here for distinct origin and target).
C5_SafestRouteUsesSurvivingEdges ==
    (SafestOnGraph /\ out.origin # out.target /\ ConnectedInPruned)
        => /\ out.ret = "search"
           /\ Len(out.route) = Len(out.path)
           /\ \A k \in 1..(Len(out.path) - 1) :
                \E e \in EdgeSet(PrunedGraph) :
                   /\ Joins(PrunedGraph, e, out.path[k], out.path[k + 1])
                   /\ ~InHazard(heap[1], e, out.hazards)

\* C6: in Shortest and Fastest mode the app's route is the search on the
\* unpruned graph, so that it is the same route for every hazard set.
C6_ShortestIgnoresHazards ==
    (out.op = "app" /\ out.G # None /\ ~out.voice /\ out.mode \in {"Shortest", "Fastest"})
        => /\ out.route = compute_shortest_path(<<heap[1]>>, Ref(1),
                                                out.origin, out.target).route
           /\ \A hz \in HazardFrames :
                app_route(<<heap[1]>>, out.G, out.origin, out.target,
                          out.mode, out.voice, hz).route = out.route

\* C7: the edges of the graph block_edges_by_hazards returns are edges of
\* its input graph, and there are no more of them; an input that is not a
\* networkx graph is returned as it is.
C7_PruneOnlyRemovesEdges ==
    [][(out.op = "idle" /\ out'.op = "prune" /\ out'.G # None)
        => IF IsNxGraph(heap, out'.G)
           THEN /\ IsNxGraph(heap', out'.graph)
                /\ EdgeSet(heap'[out'.graph.id]) \subseteq EdgeSet(heap[out'.G.id])
                /\ Len(heap'[out'.graph.id].edges) <= Len(heap[out'.G.id].edges)
           ELSE out'.graph = out'.G /\ heap' = heap]_vars

C7_Witness ==
    /\ PrunedNx /\ out.graph # out.G
    /\ EdgeSet(heap[out.graph.id]) # EdgeSet(heap[out.G.id])
    /\ EdgeSet(heap[out.graph.id]) # {}

\* C8: block_edges_by_hazards does not change its input graph: nodes, edges
\* and attributes of every graph object that existed before the call are
\* the same after it, also when edges were removed from the result.
C8_PruneKeepsInputGraph ==
    [][(out.op = "idle" /\ out'.op = "prune")
        => /\ Len(heap') >= Len(heap)
           /\ \A i \in 1..Len(heap) : heap'[i] = heap[i]]_vars

C8_Witness ==
    /\ PrunedNx /\ out.blocked > 0
    /\ out.graph # out.G
    /\ Len(heap[out.graph.id].edges) < Len(heap[out.G.id].edges)

\* C9: for a graph with node coordinates and a non-empty hazard set, an
\* input edge is absent from the pruned graph if and only if its own
\* representative point is inside at least one hazard polygon.
C9_EdgeRemovedIffInHazard ==
    (PrunedNx /\ _iter_hazard_geoms(out.hazards) # <<>>)
        => \A e \in EdgeSet(heap[out.G.id]) :
              (e \notin EdgeSet(heap[out.graph.id]))
                 <=> InHazard(heap[out.G.id], e, out.hazards)

\* C10: blocked_count is the number of input edges missing from the
\* returned graph; an edge inside several hazards counts once.
C10_BlockedCountsMissingEdges ==
    out.op = "prune"
        => IF IsNxGraph(heap, out.G)
           THEN out.blocked =
                  Cardinality(EdgeSet(heap[out.G.id]) \ EdgeSet(heap[out.graph.id]))
           ELSE out.blocked = 0 /\ out.graph = out.G

C10_Witness ==
    /\ PrunedNx /\ out.blocked > 0
    /\ \E e \in EdgeSet(heap[out.G.id]) :
          /\ e \notin EdgeSet(heap[out.graph.id])
          /\ Cardinality({i \in 1..Len(_iter_hazard_geoms(out.hazards)) :
                            /\ _iter_hazard_geoms(out.hazards)[i].shp
                            /\ contains(_iter_hazard_geoms(out.hazards)[i],
                                        edge_midpoint(heap[out.G.id], e))}) >= 2

\* the edges of a graph value: those of the networkx object, none for the
\* dict fallback graph (its "edges" list is empty) and for None
GraphEdges(h, G) == IF IsNxGraph(h, G) THEN EdgeSet(h[G.id]) ELSE {}

\* the graph value carries no edge-coordinate information: it is no networkx
\* graph, or no edge has a geometry or end nodes with coordinate attributes
NoEdgeCoordinates(h, G) ==
    \/ ~IsNxGraph(h, G)
    \/ \A e \in EdgeSet(h[G.id]) :
          ~e.geo /\ ~(h[G.id].attr[e.u].has /\ h[G.id].attr[e.v].has)

\* C11: if the hazard set is empty or null, or the graph carries no
\* edge-coordinate information (dict fallback graph, nodes without coordinate
\* attributes), block_edges_by_hazards returns the input graph with its edge
\* set unchanged and blocked_count = 0.
C11_NoCoordinatesNothingPruned ==
    (/\ out.op = "prune" /\ out.G # None
     /\ (_iter_hazard_geoms(out.hazards) = <<>> \/ NoEdgeCoordinates(heap, out.G)))
        => /\ out.blocked = 0
           /\ GraphEdges(heap, out.graph) = GraphEdges(heap, out.G)

\* the events of the load_graph call that equal ev
EventCount(ev) == Cardinality({i \in 1..Len(load.events) : load.events[i] = ev})

\* C12: load_graph always terminates by returning a graph and no error
\* escapes it; with online true the fetch is attempted at most once and a
\* fetch error is followed by the lattice synthesis with no retry; with
\* online false no fetch is attempted and the lattice is synthesized directly.
C12_LoadGraphIsTotal ==
    /\ [](load.pc = "done" =>
             /\ load.result.kind \in {"nx", "dict"}
             /\ EventCount("fetch") <= 1
             /\ (~load.online => load.events = <<"grid">>)
             /\ (EventCount("fetch") = 1 /\ load.fetched = None
                    => load.events = <<"fetch", "grid">>)
             /\ (EventCount("fetch") = 1 /\ load.fetched # None
                    => load.events = <<"fetch">> /\ load.result = load.fetched))
    /\ ((load.pc \in {"fetch", "grid"}) ~> (load.pc = "done"))

C12_Witness ==
    /\ load.pc = "done" /\ load.online
    /\ load.events = <<"fetch", "grid">>
    /\ load.result.kind = "nx"

\* C13: when load_graph is called without a center, the graph it returns is
\* positioned around the reference point (9.931233, 76.267304): the fetch is
\* centred on it, and on the lattice path node (i, j) has the coordinates of
\* the reference point offset by (i - N div 2, j - N div 2) lattice steps.
C13_DefaultCenterIsReferencePoint ==
    (load.pc = "done" /\ load.center_point = NoPoint)
        => IF load.events = <<"fetch">> THEN load.center = DefaultCenter
           ELSE load.result.kind = "nx" =>
                  \A n \in NodeSet(load.result) :
                     /\ load.result.attr[n].y
                          = DefaultCenter[1] + (n[1] - GridN \div 2) * Spacing
                     /\ load.result.attr[n].x
                          = DefaultCenter[2] + (n[2] - GridN \div 2) * Spacing

\* the weather record holds numbers where it holds rainfall and wind
NumericWeather(weather) ==
    /\ weather.kind = "dict"
    /\ weather.rainfall_mm.kind \in {"num", "absent"}
    /\ weather.wind_kph.kind \in {"num", "absent"}

RainDrivers == {"Severe rainfall", "Moderate rainfall", "Low rainfall"}
WindDrivers == {"High winds", "Moderate winds", "Low winds"}

DriverCount(drivers, texts) ==
    Cardinality({i \in 1..Len(drivers) : drivers[i].text \in texts})

\* C14: with default thresholds score_disaster returns rain_part + wind_part
\* clamped to 1.0, rain_part being 0.6 if rainfall >= 50 or flood_override,
\* else 0.3 if rainfall >= 25, else 0, and wind_part 0.4 if wind >= 80, else
\* 0.15 if wind >= 40, else 0; the score is in [0,1] and exactly one rainfall
\* driver and one wind driver are recorded.
C14_DisasterScoreByThresholds ==
    (/\ risk.op = "score_disaster" /\ risk.t = DefaultThresholds
     /\ NumericWeather(risk.weather))
        => LET rainfall == IF risk.weather.rainfall_mm.kind = "num"
                           THEN risk.weather.rainfall_mm.v ELSE 0
               wind == IF risk.weather.wind_kph.kind = "num"
                       THEN risk.weather.wind_kph.v ELSE 0
               rain_part == IF rainfall >= 50 \/ risk.trigger_flood THEN 600
                            ELSE IF rainfall >= 25 THEN 300 ELSE 0
               wind_part == IF wind >= 80 THEN 400 ELSE IF wind >= 40 THEN 150 ELSE 0
           IN  /\ ~risk.res.raised
               /\ risk.res.score = (IF rain_part + wind_part > 1000 THEN 1000
                                    ELSE rain_part + wind_part)
               /\ risk.res.score \in 0..1000
               /\ Len(risk.res.drivers) = 2
               /\ DriverCount(risk.res.drivers, RainDrivers) = 1
               /\ DriverCount(risk.res.drivers, WindDrivers) = 1

\* rainfall 180, wind 80, flood_override: score 1.0 with a severe-rainfall
\* and a high-winds driver
C14_Witness ==
    /\ risk.op = "score_disaster" /\ risk.t = DefaultThresholds
    /\ risk.weather = Weather(Num(180), Num(80)) /\ risk.trigger_flood
    /\ risk.res.score = 1000
    /\ risk.res.drivers[1].text = "Severe rainfall"
    /\ risk.res.drivers[2].text = "High winds"

\* the crowd input has data: a frame with rows and a numeric people column
HasCrowdData(crowd_df) ==
    crowd_df.kind = "frame" /\ crowd_df.rows > 0 /\ crowd_df.people = "num"

\* the score the density rule gives, density being total_people / area_m2
\* for a positive area
DensityScore(total_people, area_m2, surge_override) ==
    IF surge_override \/ total_people >= 4 * area_m2 THEN 700
    ELSE IF total_people >= 2 * area_m2 THEN 350
    ELSE 0

\* a score_crowd call with default thresholds, a positive area and no
\* people column that fails to sum
CrowdCall ==
    /\ risk.op = "score_crowd" /\ risk.t = DefaultThresholds
    /\ risk.area_m2 > 0
    /\ (risk.crowd_df.kind = "frame" => risk.crowd_df.people # "bad")

NoSignal ==
    \/ /\ risk.op = "score_disaster"
       /\ \/ risk.weather.kind = "none"
          \/ /\ risk.weather.rainfall_mm.kind # "num"
             /\ risk.weather.wind_kph.kind # "num"
             /\ ~risk.trigger_flood
    \/ /\ risk.op = "score_crowd"
       /\ ~risk.trigger_surge
       /\ (~HasCrowdData(risk.crowd_df) \/ risk.area_m2 = 0)

\* C16: score_disaster and score_crowd never raise; for missing, empty or
\* malformed inputs they return score 0.0 with an explanatory driver.
C16_ScorersNeverRaise ==
    risk.op \in {"score_disaster", "score_crowd"}
        => /\ ~risk.res.raised
           /\ NoSignal => risk.res.score = 0 /\ Len(risk.res.drivers) >= 1

\* the tier the tier boundaries give: max(d, 0.9 c) < x exactly when d < x
\* and 0.9 c < x (scores in thousandths)
ExpectedTier(d, c) ==
    IF d < 200 /\ 9 * c < 2000 THEN "low"
    ELSE IF d < 500 /\ 9 * c < 5000 THEN "medium"
    ELSE IF d < 800 /\ 9 * c < 8000 THEN "high"
    ELSE "critical"

TierName(bucket) ==
    CASE bucket = "low" -> "Low" [] bucket = "medium" -> "Medium"
      [] bucket = "high" -> "High" [] bucket = "critical" -> "Critical"

FixedRecommendations(bucket) ==
    CASE bucket = "low" -> <<"Monitor conditions", "Send updates to residents">>
      [] bucket = "medium" -> <<"Prepare shelters", "Advise limited movement">>
      [] bucket = "high" ->
           <<"Activate evacuation protocol", "Prioritize vulnerable groups">>
      [] bucket = "critical" ->
           <<"Immediate evacuation", "Deploy emergency services",
             "Activate emergency broadcast">>

\* C17: for scores in [0,1] fuse computes combined = max(disaster_score,
\* 0.9 * crowd_score) and returns Low if combined < 0.2, Medium if < 0.5,
\* High if < 0.8, Critical otherwise, with that tier's fixed ordered list of
\* recommendations.
C17_FuseTierBoundaries ==
    risk.op = "fuse"
        => LET expected == ExpectedTier(risk.disaster_score, risk.crowd_score)
           IN  /\ risk.res.bucket = expected
               /\ Len(risk.res.recommendations) = Len(FixedRecommendations(expected))
               /\ risk.i18n = None =>
                     /\ risk.res.tier = En(TierName(expected))
                     /\ \A k \in 1..Len(FixedRecommendations(expected)) :
                           risk.res.recommendations[k]
                               = En(FixedRecommendations(expected)[k])

\* (0.0, 0.9): combined 0.81, Critical
C17_Witness ==
    /\ risk.op = "fuse" /\ risk.i18n = None
    /\ risk.disaster_score = 0 /\ risk.crowd_score = 900
    /\ risk.res.tier = En("Critical")

TierRank(bucket) ==
    CASE bucket = "low" -> 1 [] bucket = "medium" -> 2
      [] bucket = "high" -> 3 [] bucket = "critical" -> 4

\* C18: fuse is monotonic in each argument: raising the disaster score or
\* the crowd score, the other held fixed, never lowers the tier in the
\* order Low < Medium < High < Critical.
C18_FuseIsMonotonic ==
    risk.op = "fuse"
        => /\ \A d2 \in FuseScores :
                d2 >= risk.disaster_score
                   => TierRank(fuse(d2, risk.crowd_score, risk.i18n).bucket)
                        >= TierRank(risk.res.bucket)
           /\ \A c2 \in FuseScores :
                c2 >= risk.crowd_score
                   => TierRank(fuse(risk.disaster_score, c2, risk.i18n).bucket)
                        >= TierRank(risk.res.bucket)

C18_Witness ==
    /\ risk.op = "fuse" /\ risk.res.bucket = "medium"
    /\ risk.disaster_score > 0 /\ risk.crowd_score > 0
    /\ \E c2 \in FuseScores :
          fuse(risk.disaster_score, c2, risk.i18n).bucket = "critical"
    /\ \E d2 \in FuseScores :
          fuse(d2, risk.crowd_score, risk.i18n).bucket = "high"

\* C19: the label table given to fuse does not affect the tier logic: for
\* every pair of scores and any two label tables (none included) fuse takes
\* the same tier branch and asks for the same ordered list of recommendation
\* keys, returning as many recommendations; only the labels may differ.
C19_LabelTableDoesNotChangeTier ==
    risk.op = "fuse"
        => \A j \in I18nInputs :
              LET other == fuse(risk.disaster_score, risk.crowd_score, j)
              IN  /\ other.bucket = risk.res.bucket
                  /\ other.keys = risk.res.keys
                  /\ Len(other.recommendations) = Len(risk.res.recommendations)
                  /\ j \notin LabelTables =>
                        /\ other.tier = En(TierName(risk.res.bucket))
                        /\ \A k \in 1..Len(other.recommendations) :
                              other.recommendations[k]
                                  = En(FixedRecommendations(risk.res.bucket)[k])

\* a table that translates the tier and one of the three recommendations
C19_Witness ==
    /\ risk.op = "fuse" /\ risk.i18n \in LabelTables
    /\ risk.res.bucket = "critical"
    /\ risk.res.tier = <<"hi", "critical">>
    /\ risk.res.recommendations
          = << En("Immediate evacuation"), <<"hi", "rec_services">>,
               En("Activate emergency broadcast") >>

InstructionTypes(instructions) ==
    [k \in 1..Len(instructions) |-> instructions[k].type]

\* C20: generate_voice_navigation returns an empty sequence for a route of
\* fewer than 2 points; for a route of 2 or more points the output is, in
\* order, exactly one start instruction first, then zero or more turn
\* instructions, then exactly one approach and exactly one arrival, last.
C20_NarrationOrder ==
    nav.op = "narrate"
        => IF nav.route.kind = "none" \/ Len(nav.route.points) < 2
           THEN nav.res = <<>>
           ELSE LET n == Len(nav.res)
                IN  /\ n >= 3
                    /\ nav.res[1].type = "start"
                    /\ \A k \in 2..(n - 2) : nav.res[k].type = "turn"
                    /\ nav.res[n - 1].type = "approach"
                    /\ nav.res[n].type = "arrival"

\* a route of identical points narrated without a turn, approach included
C20_Witness ==
    /\ nav.op = "narrate" /\ nav.route.kind = "list"
    /\ Len(nav.route.points) = 2
    /\ InstructionTypes(nav.res) = <<"start", "approach", "arrival">>

-----------------------------------------------------------------------------
(* NavigationNarrator: the turn classification *)

\* the eight buckets of the turn angle: [0, 22.5) with [337.5, 360),
\* [22.5, 67.5), [67.5, 112.5), ... , [292.5, 337.5), each with its direction
TurnBuckets ==
    {[lo |-> 33750, hi |-> 36000, direction |-> "Continue straight ahead"],
     [lo |-> 0, hi |-> 2250, direction |-> "Continue straight ahead"],
     [lo |-> 2250, hi |-> 6750, direction |-> "Turn slightly right"],
     [lo |-> 6750, hi |-> 11250, direction |-> "Turn right"],
     [lo |-> 11250, hi |-> 15750, direction |-> "Turn sharp right"],
     [lo |-> 15750, hi |-> 20250, direction |-> "Make a U-turn"],
     [lo |-> 20250, hi |-> 24750, direction |-> "Turn sharp left"],
     [lo |-> 24750, hi |-> 29250, direction |-> "Turn left"],
     [lo |-> 29250, hi |-> 33750, direction |-> "Turn slightly left"]}

\* the directions of the buckets that hold the angle
BucketDirections(turn_angle) ==
    {b.direction : b \in {c \in TurnBuckets : c.lo <= turn_angle /\ turn_angle < c.hi}}

\* C21: every turn angle in [0, 360), the boundaries 22.5 and 337.5
\* included, lies in exactly one of the eight buckets and the instruction
\* carries the direction of that bucket.
C21_TurnBucketsPartition ==
    nav.op = "turn" =>
        /\ nav.turn_angle \in 0..35999
        /\ Cardinality(BucketDirections(nav.turn_angle)) = 1
        /\ BucketDirections(nav.turn_angle) = {nav.direction}

-----------------------------------------------------------------------------
(* PathPlanner: requests served at once *)

\* what request c returns when it runs alone on the graph as it was given
Alone(c) ==
    IF c.mode = "Safest"
    THEN compute_safest_path(<<req.shared>>, Ref(1), c.origin, c.target, req.hazards)
    ELSE compute_shortest_path(<<req.shared>>, Ref(1), c.origin, c.target)

\* C22: route computations of any modes that interleave on one graph and
\* one hazard set each return the route they return when run alone, and the
\* shared graph is at every moment, so also after all of them, as it was
\* given.
C22_ConcurrentRequestsIndependent ==
    req.op = "serving" =>
        /\ heap[1] = req.shared
        /\ \A k \in 1..Len(req.calls) :
             req.calls[k].pc = "done" =>
                 /\ req.calls[k].res.route = Alone(req.calls[k]).route
                 /\ req.calls[k].res.ret = Alone(req.calls[k]).ret

\* both requests have returned, a Safest one that pruned edges and a Shortest
\* one for the same ends, with different routes
C22_Witness ==
    /\ req.op = "serving"
    /\ \A k \in 1..2 : req.calls[k].pc = "done"
    /\ req.calls[1].mode = "Safest" /\ req.calls[1].blocked > 0
    /\ req.calls[2].mode = "Shortest"
    /\ req.calls[1].origin = req.calls[2].origin
    /\ req.calls[1].target = req.calls[2].target
    /\ req.calls[1].res.ret = "search" /\ req.calls[2].res.ret = "search"
    /\ req.calls[1].res.route # req.calls[2].res.route

-----------------------------------------------------------------------------
(* PathPlanner: snapping and the ends of a route *)

\* the GeoPoint of node n of graph g: its y and x attributes, which the
\* lattice synthesis and the fetched network give every node
GeoPoint(g, n) == <<g.attr[n].y, g.attr[n].x>>

HasGeoPoints(g) == \A n \in NodeSet(g) : g.attr[n].has

\* n is a node of g whose GeoPoint is nearest to point
NearestByGeoPoint(g, n, point) ==
    /\ n \in NodeSet(g)
    /\ \A m \in NodeSet(g) :
         _haversine_km(point, GeoPoint(g, n)) <= _haversine_km(point, GeoPoint(g, m))

\* a planner call that searched the loaded graph and found a path
SearchedGraph ==
    /\ out.op \in {"shortest", "fastest", "safest"}
    /\ out.searched /\ out.found /\ out.path # <<>>
    /\ heap[1].kind = "nx"

\* C23: the node the search starts from has a GeoPoint nearest to the
\* origin among all nodes of the graph, and the node it ends at one nearest
\* to the target, on the fetched network and on the lattice, where the
\* GeoPoint of a lattice node is the latitude / longitude the synthesis gave
\* it, not its index.
C23_NearestNodeByGeoPoint ==
    (SearchedGraph /\ HasGeoPoints(heap[1])) =>
        /\ NearestByGeoPoint(heap[1], out.path[1], out.origin)
        /\ NearestByGeoPoint(heap[1], out.path[Len(out.path)], out.target)

\* g is a synthesized lattice: its nodes are index pairs
IsLattice(g) == g.kind = "nx" /\ \A n \in NodeSet(g) : Len(n) = 2

\* point is the GeoPoint of a node of g nearest to origin
SnappedPoint(g, point, origin) ==
    /\ g.kind = "nx" /\ HasGeoPoints(g)
    /\ \E n \in NodeSet(g) : NearestByGeoPoint(g, n, origin) /\ point = GeoPoint(g, n)

\* C24: a route the planner returns starts at the origin or at the
\* GeoPoint of the node nearest to the origin and ends at the target; on a
\* lattice every point in between is the latitude / longitude GeoPoint of a
\* lattice node.
C24_RouteEnds ==
    (out.op \in {"shortest", "fastest", "safest"}) =>
        /\ out.route # <<>>
        /\ out.route[1] = out.origin \/ SnappedPoint(heap[1], out.route[1], out.origin)
        /\ out.route[Len(out.route)] = out.target
        /\ (out.ret = "search" /\ IsLattice(heap[1]) /\ HasGeoPoints(heap[1])) =>
               \A k \in 2..(Len(out.route) - 1) :
                   \E n \in NodeSet(heap[1]) : out.route[k] = GeoPoint(heap[1], n)

-----------------------------------------------------------------------------
(* NavigationNarrator: the chunks *)

\* the chunks of a route of n points: size s, chunk k (from 0) runs from
\* route point k s to point min(k s + s, n - 1), both counted from 0
ChunkSize(n) == IF n \div 15 > 1 THEN n \div 15 ELSE 1

ChunkCount(n) == (n - 1 + ChunkSize(n) - 1) \div ChunkSize(n)

ChunkStart(points, k) == points[k * ChunkSize(Len(points)) + 1]

ChunkEnd(points, k) ==
    LET last == (k + 1) * ChunkSize(Len(points))
    IN  IF last < Len(points) - 1 THEN points[last + 1] ELSE points[Len(points)]

ChunkLength(points, k) == haversine_m(ChunkStart(points, k), ChunkEnd(points, k))

ChunkBearing(points, k) == calculate_bearing(ChunkStart(points, k), ChunkEnd(points, k))

\* the Turn instructions of an instruction list, in order
Turns(instructions) == SelectSeq(instructions, LAMBDA ins : ins.type = "turn")

\* a narration of a route of at least 2 points
Narrated ==
    nav.op = "narrate" /\ nav.route.kind = "list" /\ Len(nav.route.points) >= 2

\* C25: a route of n >= 2 points is visited in chunks of size
\* s = max(1, n div 15) that start at 0, s, 2s, ... below n - 1, the last
\* one ending at the final point; when every chunk is 5 m or longer there is
\* one Turn per chunk, ceil((n - 1) / s) of them, each with the length and
\* bearing of its chunk, and a 16-point route gives Start, 15 Turns,
\* Approach, Arrival.
C25_OneTurnPerChunk ==
    Narrated =>
        LET points == nav.route.points
            m == ChunkCount(Len(points))
            turns == Turns(nav.res)
        IN  /\ ChunkEnd(points, m - 1) = points[Len(points)]
            /\ (\A k \in 0..(m - 1) : ChunkLength(points, k) >= 5) =>
                   /\ Len(turns) = m
                   /\ \A k \in 0..(m - 1) :
                        /\ turns[k + 1].distance = ChunkLength(points, k)
                        /\ turns[k + 1].bearing = ChunkBearing(points, k)
                   /\ Len(points) = 16 =>
                          /\ Len(nav.res) = 18 /\ m = 15
                          /\ nav.res[1].type = "start"
                          /\ nav.res[17].type = "approach"
                          /\ nav.res[18].type = "arrival"

\* a 32-point route narrated in 16 chunks of size 2, the last one a single
\* step
C25_Witness ==
    /\ Narrated
    /\ Len(nav.route.points) = 32
    /\ \A k \in 0..15 : ChunkLength(nav.route.points, k) >= 5
    /\ Len(Turns(nav.res)) = 16
    /\ Turns(nav.res)[16].distance = 50 /\ Turns(nav.res)[15].distance = 100

\* the chunks of 5 m or more, and the j-th of them
LongChunks(points) ==
    {k \in 0..(ChunkCount(Len(points)) - 1) : ChunkLength(points, k) >= 5}

LongChunk(points, j) ==
    CHOOSE k \in LongChunks(points) :
        Cardinality({l \in LongChunks(points) : l < k}) = j - 1

\* the length of the chunks 0 .. k together
RECURSIVE ChunkSum(_, _)
ChunkSum(points, k) ==
    IF k < 0 THEN 0 ELSE ChunkLength(points, k) + ChunkSum(points, k - 1)

\* C26: a chunk shorter than 5 m gives no Turn and is not the previous
\* bearing of the next turn, but its length counts in the cumulative
\* distance that remaining is computed from; every chunk of 5 m or more
\* gives exactly one Turn.
C26_ShortChunksSkipped ==
    Narrated =>
        LET points == nav.route.points
            turns == Turns(nav.res)
        IN  /\ Len(turns) = Cardinality(LongChunks(points))
            /\ \A j \in 1..Len(turns) :
                 LET k == LongChunk(points, j)
                 IN  /\ turns[j].distance = ChunkLength(points, k)
                     /\ turns[j].remaining = nav.dist_m - ChunkSum(points, k)
                     /\ turns[j].direction =
                            IF j = 1 THEN cardinal_direction(ChunkBearing(points, k))
                            ELSE turn_direction(
                                     (ChunkBearing(points, k)
                                      - ChunkBearing(points, LongChunk(points, j - 1))
                                      + 36000) % 36000)

\* a 3 m chunk to the east between two 100 m chunks to the north: two Turns,
\* the second one straight ahead with the 3 m counted
C26_Witness ==
    /\ Narrated
    /\ nav.route.points = << <<0, 0>>, <<100, 0>>, <<100, 3>>, <<200, 3>> >>
    /\ nav.dist_m = 1500
    /\ Len(Turns(nav.res)) = 2
    /\ Turns(nav.res)[2].direction = "Continue straight ahead"
    /\ Turns(nav.res)[2].remaining = 1500 - 203

-----------------------------------------------------------------------------
(* GraphProvider: the shape of the lattice *)

\* load_graph has just synthesized a lattice with networkx
LatticeBuilt ==
    /\ load.pc = "done" /\ load.nx
    /\ load.events # <<>> /\ load.events[Len(load.events)] = "grid"

\* the pairs of 4-neighbours of a lattice of side size, as sets of two nodes
NeighbourPairs(size) ==
    {{<<i, j>>, <<i + 1, j>>} : i \in 0..(size - 2), j \in 0..(size - 1)}
    \cup {{<<i, j>>, <<i, j + 1>>} : i \in 0..(size - 1), j \in 0..(size - 2)}

\* C27: the lattice of side N has exactly the N x N nodes (i, j) and exactly
\* the 2 N (N - 1) edges that join 4-neighbours; with a center, node (i, j)
\* has the GeoPoint center + ((i - N div 2), (j - N div 2)) * 0.005 degree;
\* every edge weight is the haversine distance, not negative, between the
\* GeoPoints of its ends.
C27_LatticeShape ==
    LatticeBuilt =>
        LET g == load.result
            N == GridN
        IN  /\ g.kind = "nx"
            /\ Len(g.order) = N * N
            /\ NodeSet(g) = (0..(N - 1)) \X (0..(N - 1))
            /\ Len(g.edges) = 2 * N * (N - 1)
            /\ {{g.edges[k].u, g.edges[k].v} : k \in 1..Len(g.edges)} = NeighbourPairs(N)
            /\ Cardinality(NeighbourPairs(N)) = 2 * N * (N - 1)
            /\ load.center_point # NoPoint =>
                   \A n \in NodeSet(g) :
                       GeoPoint(g, n) =
                           <<load.center_point[1] + (n[1] - N \div 2) * Spacing,
                             load.center_point[2] + (n[2] - N \div 2) * Spacing>>
            /\ \A k \in 1..Len(g.edges) :
                   /\ g.edges[k].len >= 0
                   /\ g.edges[k].len =
                          _haversine_km(GeoPoint(g, g.edges[k].u), GeoPoint(g, g.edges[k].v))

\* a lattice synthesized around a given center
C27_Witness ==
    /\ LatticeBuilt
    /\ load.center_point = <<Deg, Deg>>
    /\ Len(load.result.edges) = 2 * GridN * (GridN - 1)
    /\ GeoPoint(load.result, <<0, 0>>) =
           <<Deg - (GridN \div 2) * Spacing, Deg - (GridN \div 2) * Spacing>>

-----------------------------------------------------------------------------
(* The risk block of the app *)

\* C28: when fuse is fed the scores of score_disaster and score_crowd under
\* the default thresholds, the tier is Critical exactly when the disaster
\* score is 1.0, that is when (rainfall >= high or the flood override) and
\* wind >= high; the crowd score is at most 0.7, 0.63 after the discount,
\* and alone never raises the tier above High.
C28_CriticalOnlyFromDisaster ==
    (risk.op = "app" /\ risk.t = DefaultThresholds) =>
        LET severe == /\ \/ risk.weather.rainfall_mm.v >= DefaultThresholds.rainfall_mm.high
                         \/ risk.trigger_flood
                      /\ risk.weather.wind_kph.v >= DefaultThresholds.wind_kph.high
        IN  /\ (risk.res.bucket = "critical") <=> (risk.res.disaster_score = 1000)
            /\ (risk.res.disaster_score = 1000) <=> severe
            /\ risk.res.crowd_score <= 700
            /\ 9 * risk.res.crowd_score <= 6300
            /\ risk.res.disaster_score < 800 => risk.res.bucket # "critical"

\* a crowd surge at its highest score with calm weather: tier High
C28_Witness ==
    /\ risk.op = "app" /\ risk.t = DefaultThresholds
    /\ risk.res.crowd_score = 700 /\ risk.res.disaster_score = 0
    /\ risk.res.bucket = "high"

\* C30: the risk history holds at most 100 entries, and they are the
\* entries appended last, in the order they were appended: after k reruns
\* those of reruns k - 99 (or 1) to k.
C30_RiskHistoryKeepsLast100 ==
    LET n == IF clock < HistoryCap THEN clock ELSE HistoryCap
    IN  /\ Len(risk_history) <= HistoryCap
        /\ Len(risk_history) = n
        /\ \A j \in 1..n : risk_history[j].timestamp = clock - n + j

\* after 103 reruns the history holds the entries of reruns 4 to 103
C30_Witness ==
    /\ clock = 103
    /\ Len(risk_history) = 100
    /\ risk_history[1].timestamp = 4
    /\ risk_history[100].timestamp = 103

-----------------------------------------------------------------------------
(* NavigationNarrator on the planner's routes *)

\* C29: when a route of the planner is narrated with the distance from
\* origin to target the caller computed, the remaining distance of every
\* Turn instruction is not negative.
C29_RemainingNeverNegative ==
    (out.op \in PlannerOps /\ nav.op = "narrate") =>
        \A j \in 1..Len(nav.res) :
            nav.res[j].type = "turn" => nav.res[j].remaining >= 0

====
